---------------------------- MODULE Spec2Model ----------------------------
(***************************************************************************)
(* Ranking aggregation and disagreement analytics of the LLM Council       *)
(* frontend: utils/analytics.js (calculateControversyScore,                *)
(* calculatePersonalityProfiles, getControversyScores) and the Stage 2     *)
(* view's calculateControversyMetrics.                                     *)
(*                                                                         *)
(* JavaScript numbers are modelled as decimal fixed-point numbers with six *)
(* fractional digits (an integer count of millionths); every arithmetic    *)
(* step of the code is one fixed-point step, rounded toward zero.  A mean  *)
(* of positions is a quotient of two small integers, and distinct such     *)
(* quotients differ by far more than a millionth, so equality of means is  *)
(* equality of the doubles.  The consistency statistic, a sum of rounded   *)
(* squares that the code reports unrounded, is computed in IEEE 754        *)
(* binary64, operation by operation.  The non-finite results of a division *)
(* (NaN, Infinity) are kept as tagged values.  -0 is identified with 0.    *)
(* Optional JavaScript values (undefined / null) are sequences of length 0 *)
(* or 1: None, Some(x).                                                    *)
(***************************************************************************)
EXTENDS Integers, Sequences, FiniteSets, TLC

---------------------------------------------------------------------------
(* Bounds of the explored inputs.                                          *)

\* largest number of peer rankings in the turn that is scored
MaxRankings == 2

\* largest length of one parsed ranking sequence
MaxLen == 3

\* largest number of conversations in the history
MaxSessions == 2

\* largest number of messages in one conversation
MaxTurns == 2

\* the number of calls of calculatePersonalityProfiles that are followed
MaxCalls == 2

\* the last reading of the clock that is followed
MaxClock == 1

\* largest number of messages in a history of partial records
MaxPartialTurns == 3

\* largest number of messages in a history of which one turn is under view
MaxFrameTurns == 2

\* largest number of tabs (peer rankings, individual responses) of a view
MaxTabs == 3

---------------------------------------------------------------------------
(* Optional values.                                                        *)

None == <<>>

Some(x) == <<x>>

IsSome(o) == Len(o) = 1

Get(o) == o[1]

---------------------------------------------------------------------------
(* Fixed-point numbers: the integer v stands for v / Scale.                *)

HalfRoot == 10 * 10 * 10

Scale == HalfRoot * HalfRoot

FromInt(n) == n * Scale

Abs(a) == IF a < 0 THEN -a ELSE a

Sign(a) == IF a < 0 THEN -1 ELSE 1

\* Math.pow(d, 2): the square of a fixed-point number, without leaving 32 bits
Pow2(d) ==
  LET a == Abs(d)
      h == a \div HalfRoot
      l == a % HalfRoot
  IN  h * h + (2 * h * l + (l * l) \div HalfRoot) \div HalfRoot

\* floor of the square root of a natural number, by bisection
RECURSIVE ISqrtIn(_, _, _)
ISqrtIn(n, lo, hi) ==
  IF lo >= hi THEN lo
  ELSE LET mid == (lo + hi + 1) \div 2
       IN  IF mid * mid <= n THEN ISqrtIn(n, mid, hi) ELSE ISqrtIn(n, lo, mid - 1)

ISqrt(n) == ISqrtIn(n, 0, 46340)

\* one more decimal digit of a square root, schoolbook method: st = <<root, remainder>>
SqrtDigit(st) ==
  LET p == st[1]
      c == st[2] * 100
      d == CHOOSE x \in 0..9 :
             /\ (20 * p + x) * x <= c
             /\ (x = 9 \/ (20 * p + x + 1) * (x + 1) > c)
  IN  <<10 * p + d, c - (20 * p + d) * d>>

\* Math.sqrt(v) for v >= 0: floor(sqrt(v * Scale)) = floor(1000 * sqrt(v))
MathSqrt(v) ==
  LET p0 == ISqrt(v)
      s0 == <<p0, v - p0 * p0>>
  IN  SqrtDigit(SqrtDigit(SqrtDigit(s0)))[1]

\* long division: the quotient so far, the remainder r < b, the place value left
RECURSIVE LongDiv(_, _, _, _)
LongDiv(acc, r, b, place) ==
  IF place = 1 THEN acc
  ELSE LongDiv(acc * 10 + (r * 10) \div b, (r * 10) % b, b, place \div 10)

\* a / b for finite a and finite b # 0
Div(a, b) ==
  Sign(a) * Sign(b) * LongDiv(Abs(a) \div Abs(b), Abs(a) % Abs(b), Abs(b), Scale)

\* Math.round(v) of a finite number: floor(v + 0.5), an integer
RoundFix(v) == (v + Scale \div 2) \div Scale

---------------------------------------------------------------------------
(* Natural numbers of any size: the list of the digits in base LimbBase,   *)
(* least significant first, without leading zero digits; <<>> is 0.        *)

LimbBits == 3 * 5

LimbBase == 2^LimbBits

Digit(a, i) == IF i <= Len(a) THEN a[i] ELSE 0

RECURSIVE BigTrim(_)
BigTrim(a) ==
  IF a = <<>> \/ a[Len(a)] # 0 THEN a ELSE BigTrim(SubSeq(a, 1, Len(a) - 1))

RECURSIVE BigFromInt(_)
BigFromInt(n) ==
  IF n = 0 THEN <<>> ELSE <<n % LimbBase>> \o BigFromInt(n \div LimbBase)

RECURSIVE BigToInt(_)
BigToInt(a) == IF a = <<>> THEN 0 ELSE Head(a) + LimbBase * BigToInt(Tail(a))

RECURSIVE BigAddFrom(_, _, _, _)
BigAddFrom(a, b, i, carry) ==
  IF i > Len(a) /\ i > Len(b) THEN (IF carry = 0 THEN <<>> ELSE <<carry>>)
  ELSE LET s == Digit(a, i) + Digit(b, i) + carry
       IN  <<s % LimbBase>> \o BigAddFrom(a, b, i + 1, s \div LimbBase)

BigAdd(a, b) == BigAddFrom(a, b, 1, 0)

\* a - b for a >= b
RECURSIVE BigSubFrom(_, _, _, _)
BigSubFrom(a, b, i, borrow) ==
  IF i > Len(a) THEN <<>>
  ELSE LET d == a[i] - Digit(b, i) - borrow
       IN  <<IF d < 0 THEN d + LimbBase ELSE d>>
           \o BigSubFrom(a, b, i + 1, IF d < 0 THEN 1 ELSE 0)

BigSub(a, b) == BigTrim(BigSubFrom(a, b, 1, 0))

\* -1, 0 or 1 as a < b, a = b or a > b
RECURSIVE BigCmpFrom(_, _, _)
BigCmpFrom(a, b, i) ==
  IF i = 0 THEN 0
  ELSE IF a[i] # b[i] THEN (IF a[i] < b[i] THEN -1 ELSE 1)
  ELSE BigCmpFrom(a, b, i - 1)

BigCmp(a, b) ==
  IF Len(a) # Len(b) THEN (IF Len(a) < Len(b) THEN -1 ELSE 1)
  ELSE BigCmpFrom(a, b, Len(a))

\* a * k for a digit k
RECURSIVE BigMulSmallFrom(_, _, _, _)
BigMulSmallFrom(a, k, i, carry) ==
  IF i > Len(a) THEN (IF carry = 0 THEN <<>> ELSE <<carry>>)
  ELSE LET p == a[i] * k + carry
       IN  <<p % LimbBase>> \o BigMulSmallFrom(a, k, i + 1, p \div LimbBase)

BigMulSmall(a, k) == IF k = 0 THEN <<>> ELSE BigMulSmallFrom(a, k, 1, 0)

\* a * LimbBase^n
BigShiftDigits(a, n) == IF a = <<>> THEN <<>> ELSE [i \in 1..n |-> 0] \o a

RECURSIVE BigMulFrom(_, _, _)
BigMulFrom(a, b, i) ==
  IF i > Len(b) THEN <<>>
  ELSE BigAdd(BigShiftDigits(BigMulSmall(a, b[i]), i - 1), BigMulFrom(a, b, i + 1))

BigMul(a, b) == BigMulFrom(a, b, 1)

\* quotient and remainder of a by a digit k > 0, from the most significant digit down
RECURSIVE BigDivSmallFrom(_, _, _, _)
BigDivSmallFrom(a, k, i, rem) ==
  IF i = 0 THEN [quot |-> <<>>, rem |-> rem]
  ELSE LET cur == rem * LimbBase + a[i]
           rest == BigDivSmallFrom(a, k, i - 1, cur % k)
       IN  [quot |-> Append(rest.quot, cur \div k), rem |-> rest.rem]

BigDivSmall(a, k) ==
  LET r == BigDivSmallFrom(a, k, Len(a), 0)
  IN  [quot |-> BigTrim(r.quot), rem |-> r.rem]

\* a * 2^bits
BigShl(a, bits) ==
  BigShiftDigits(BigMulSmall(a, 2^(bits % LimbBits)), bits \div LimbBits)

\* floor(a / 2^bits)
BigShr(a, bits) ==
  LET n == bits \div LimbBits
  IN  IF n >= Len(a) THEN <<>>
      ELSE BigDivSmall(SubSeq(a, n + 1, Len(a)), 2^(bits % LimbBits)).quot

\* the number of binary digits
RECURSIVE BitLength(_)
BitLength(n) == IF n = 0 THEN 0 ELSE 1 + BitLength(n \div 2)

BigBitLength(a) ==
  IF a = <<>> THEN 0 ELSE LimbBits * (Len(a) - 1) + BitLength(a[Len(a)])

\* the next digit of a square root, schoolbook method: the largest digit d with
\* (2 * root * LimbBase + d) * d <= rem, by bisection; twice = 2 * root
RECURSIVE BigSqrtDigitIn(_, _, _, _)
BigSqrtDigitIn(twice, rem, lo, hi) ==
  IF lo >= hi THEN lo
  ELSE LET mid == (lo + hi + 1) \div 2
       IN  IF BigCmp(BigMulSmall(<<mid>> \o twice, mid), rem) <= 0
           THEN BigSqrtDigitIn(twice, rem, mid, hi)
           ELSE BigSqrtDigitIn(twice, rem, lo, mid - 1)

\* floor of the square root of n and the remainder n - root^2, two digits of n per step
RECURSIVE BigISqrt(_)
BigISqrt(n) ==
  IF Len(n) <= 2
  THEN LET v == BigToInt(n)
           r == ISqrt(v)
       IN  [root |-> BigFromInt(r), rem |-> BigFromInt(v - r * r)]
  ELSE LET st == BigISqrt(SubSeq(n, 3, Len(n)))
           rem == BigTrim(SubSeq(n, 1, 2) \o st.rem)
           twice == BigMulSmall(st.root, 2)
           d == BigSqrtDigitIn(twice, rem, 0, LimbBase - 1)
       IN  [root |-> <<d>> \o st.root,
            rem |-> BigSub(rem, BigMulSmall(<<d>> \o twice, d))]

---------------------------------------------------------------------------
(* IEEE 754 binary64, the Number type: a finite double is sign, 53-digit   *)
(* significand man and exponent exp, with value man * 2^exp; 0 has         *)
(* man = <<>>.  Every operation rounds to nearest, ties to even.  The      *)
(* values met here are far from overflow and from the subnormal range; -0  *)
(* is identified with 0.                                                   *)

Precision == 52 + 1

F64Zero == [neg |-> FALSE, man |-> <<>>, exp |-> 0]

\* the double nearest to (big + fraction) * 2^exp, where sticky tells whether the
\* fraction in (0, 1) is present; with sticky, big has more than Precision + 1 digits
F64Round(neg, big, exp, sticky) ==
  LET len == BigBitLength(big)
  IN  IF len = 0 THEN F64Zero
      ELSE IF len <= Precision
      THEN [neg |-> neg, man |-> BigShl(big, Precision - len),
            exp |-> exp - (Precision - len)]
      ELSE LET shift == len - Precision
               q == BigShr(big, shift)
               twice == BigShl(BigSub(big, BigShl(q, shift)), 1)
               c == BigCmp(twice, BigShl(<<1>>, shift))
               up == c > 0 \/ (c = 0 /\ (sticky \/ q[1] % 2 = 1))
               q1 == IF up THEN BigAdd(q, <<1>>) ELSE q
           IN  IF BigBitLength(q1) > Precision
               THEN [neg |-> neg, man |-> BigShr(q1, 1), exp |-> exp + shift + 1]
               ELSE [neg |-> neg, man |-> q1, exp |-> exp + shift]

F64FromInt(n) ==
  F64Round(n < 0, BigFromInt(IF n < 0 THEN -n ELSE n), 0, FALSE)

F64Neg(a) == IF a.man = <<>> THEN a ELSE [a EXCEPT !.neg = ~a.neg]

\* a + b
F64Add(a, b) ==
  IF a.man = <<>> THEN b
  ELSE IF b.man = <<>> THEN a
  ELSE LET e == IF a.exp < b.exp THEN a.exp ELSE b.exp
           x == BigShl(a.man, a.exp - e)
           y == BigShl(b.man, b.exp - e)
           c == BigCmp(x, y)
       IN  IF a.neg = b.neg THEN F64Round(a.neg, BigAdd(x, y), e, FALSE)
           ELSE IF c = 0 THEN F64Zero
           ELSE IF c > 0 THEN F64Round(a.neg, BigSub(x, y), e, FALSE)
           ELSE F64Round(b.neg, BigSub(y, x), e, FALSE)

\* a - b
F64Sub(a, b) == F64Add(a, F64Neg(b))

\* a * b
F64Mul(a, b) ==
  IF a.man = <<>> \/ b.man = <<>> THEN F64Zero
  ELSE F64Round(a.neg # b.neg, BigMul(a.man, b.man), a.exp + b.exp, FALSE)

\* a / n for an integer 0 < n < LimbBase
F64DivInt(a, n) ==
  LET d == BigDivSmall(BigShiftDigits(a.man, 2), n)
  IN  F64Round(a.neg, d.quot, a.exp - 2 * LimbBits, d.rem # 0)

\* Math.sqrt(a) for a >= 0
F64Sqrt(a) ==
  IF a.man = <<>> THEN F64Zero
  ELSE LET shift == (Precision + 5) + ((a.exp - (Precision + 5)) % 2)
           n == BigShl(a.man, shift)
           st == BigISqrt(n)
       IN  F64Round(FALSE, st.root, (a.exp - shift) \div 2, st.rem # <<>>)

\* floor(a * Scale) for 0 <= a < 2^10: a double as a fixed-point number
F64ToFixed(a) ==
  IF a.man = <<>> THEN 0
  ELSE LET scaled == BigMulSmall(BigMulSmall(a.man, HalfRoot), HalfRoot)
       IN  BigToInt(BigShr(scaled, -a.exp))

---------------------------------------------------------------------------
(* JavaScript number values.  A finite number carries its fixed-point      *)
(* value; "TypeError" marks a call that ended by throwing.                 *)

Fin(v) == [tag |-> "num", val |-> v]

NaN == [tag |-> "NaN", val |-> 0]

Infinity == [tag |-> "Infinity", val |-> 0]

NegInfinity == [tag |-> "-Infinity", val |-> 0]

TypeError == [tag |-> "TypeError", val |-> 0]

\* a / b where a is a number or NaN and b is finite
JsDiv(a, b) ==
  IF a.tag # "num" THEN a
  ELSE IF b = 0
       THEN IF a.val = 0 THEN NaN
            ELSE IF a.val > 0 THEN Infinity ELSE NegInfinity
       ELSE Fin(Div(a.val, b))

\* a * n for a small integer n
JsTimes(a, n) ==
  IF a.tag = "num" THEN Fin(a.val * n)
  ELSE IF n = 0 THEN NaN
  ELSE a

\* Math.round
MathRound(a) == IF a.tag = "num" THEN Fin(FromInt(RoundFix(a.val))) ELSE a

\* Math.min(n, a) for an integer n
MathMin(n, a) ==
  IF a.tag = "NaN" THEN NaN
  ELSE IF a.tag = "Infinity" THEN Fin(FromInt(n))
  ELSE IF a.tag = "-Infinity" THEN a
  ELSE IF a.val < FromInt(n) THEN a ELSE Fin(FromInt(n))

\* Math.max(a, b)
MathMax(a, b) ==
  IF a.tag = "NaN" \/ b.tag = "NaN" THEN NaN
  ELSE IF a.tag = "Infinity" \/ b.tag = "Infinity" THEN Infinity
  ELSE IF a.tag = "-Infinity" THEN b
  ELSE IF b.tag = "-Infinity" THEN a
  ELSE IF a.val >= b.val THEN a ELSE b

---------------------------------------------------------------------------
(* Labels are character sequences; a label -> model mapping is the list of *)
(* the object's entries in insertion order.                                *)

Undefined == "undefined"

Whitespace == {" "}

\* String.prototype.trim
RECURSIVE TrimLeft(_)
TrimLeft(s) ==
  IF s # <<>> /\ Head(s) \in Whitespace THEN TrimLeft(Tail(s)) ELSE s

RECURSIVE TrimRight(_)
TrimRight(s) ==
  IF s # <<>> /\ s[Len(s)] \in Whitespace
  THEN TrimRight(SubSeq(s, 1, Len(s) - 1))
  ELSE s

\* a trim that leaves the label as it is
Trim_Nothing(s) == s

Trim(s) == TrimRight(TrimLeft(s))

\* Object.keys(labelToModel)
ObjectKeys(l2m) == [i \in 1..Len(l2m) |-> l2m[i].key]

\* Object.values(labelToModel)
ObjectValues(l2m) == [i \in 1..Len(l2m) |-> l2m[i].value]
\* a lookup that resolves a label that is not a key to the first generator
Lookup_FirstWhenMissing(l2m, label) ==
  IF \E i \in 1..Len(l2m) : l2m[i].key = label
  THEN l2m[CHOOSE i \in 1..Len(l2m) : l2m[i].key = label].value
  ELSE IF Len(l2m) >= 1 THEN l2m[1].value ELSE Undefined


\* labelToModel[label]: undefined when the object has no such key
Lookup(l2m, label) ==
  IF \E i \in 1..Len(l2m) : l2m[i].key = label
  THEN l2m[CHOOSE i \in 1..Len(l2m) : l2m[i].key = label].value
  ELSE Undefined

\* the truthiness test  if (modelName)
Truthy(m) == m # Undefined

---------------------------------------------------------------------------
(* The position matrix: an object keyed by model, as the list of its       *)
(* entries [model, positions] in key insertion order.                      *)

HasKey(pm, m) == \E i \in 1..Len(pm) : pm[i].model = m

KeyIndex(pm, m) == CHOOSE i \in 1..Len(pm) : pm[i].model = m

\* positionMatrix[model] = []
SetEmpty(pm, m) ==
  IF HasKey(pm, m)
  THEN [pm EXCEPT ![KeyIndex(pm, m)].positions = <<>>]
  ELSE Append(pm, [model |-> m, positions |-> <<>>])

\* models.forEach(model => { positionMatrix[model] = []; })
RECURSIVE InitPositionMatrix(_, _)
InitPositionMatrix(pm, models) ==
  IF models = <<>> THEN pm
  ELSE InitPositionMatrix(SetEmpty(pm, Head(models)), Tail(models))

\* positionMatrix[modelName].push(p)
PushPosition(pm, m, p) ==
  [pm EXCEPT ![KeyIndex(pm, m)].positions = Append(@, p)]

\* parsed.forEach((label, position) => ...) from index i on
RECURSIVE FillFromParsed(_, _, _, _)
FillFromParsed(pm, parsed, l2m, i) ==
  IF i > Len(parsed) THEN pm
  ELSE LET modelName == Lookup(l2m, Trim(parsed[i]))
       IN  FillFromParsed(
             IF Truthy(modelName) THEN PushPosition(pm, modelName, i) ELSE pm,
             parsed, l2m, i + 1)

\* ranking.parsed_ranking || []
ParsedOrEmpty(ranking) ==
  IF IsSome(ranking.parsed_ranking) THEN Get(ranking.parsed_ranking) ELSE <<>>

\* a fill that leaves out what an evaluator says about its own generator
RECURSIVE FillPositionMatrix_WithoutSelf(_, _, _, _)
FillPositionMatrix_WithoutSelf(pm, rankings, l2m, r) ==
  IF r > Len(rankings) THEN pm
  ELSE FillPositionMatrix_WithoutSelf(
         FillFromParsed(
           pm,
           [i \in 1..Len(ParsedOrEmpty(rankings[r])) |->
              IF Lookup(l2m, Trim(ParsedOrEmpty(rankings[r])[i])) = rankings[r].model
              THEN <<>>
              ELSE ParsedOrEmpty(rankings[r])[i]],
           l2m, 1),
         rankings, l2m, r + 1)

\* stage2Rankings.forEach(ranking => ...) from ranking r on
RECURSIVE FillPositionMatrix(_, _, _, _)
FillPositionMatrix(pm, rankings, l2m, r) ==
  IF r > Len(rankings) THEN pm
  ELSE FillPositionMatrix(
         FillFromParsed(pm, ParsedOrEmpty(rankings[r]), l2m, 1),
         rankings, l2m, r + 1)

\* the position matrix of one turn
PositionMatrix(rankings, l2m) ==
  FillPositionMatrix(InitPositionMatrix(<<>>, ObjectValues(l2m)), rankings, l2m, 1)

---------------------------------------------------------------------------
(* Numeric helpers of analytics.js.                                        *)

\* positions as numbers
ToNum(positions) == [i \in 1..Len(positions) |-> FromInt(positions[i])]

\* arr.reduce((a, b) => a + b, 0)
RECURSIVE SumSeq(_)
SumSeq(arr) == IF arr = <<>> THEN 0 ELSE Head(arr) + SumSeq(Tail(arr))

\* a mean that divides by one more than the number of elements
calculateMean_OffByOne(arr) ==
  IF Len(arr) = 0 THEN 0 ELSE SumSeq(arr) \div (Len(arr) + 1)

\* calculateMean: 0 for an empty array
calculateMean(arr) ==
  IF Len(arr) = 0 THEN 0 ELSE SumSeq(arr) \div Len(arr)

\* arr.reduce((sum, x) => sum + Math.pow(x - mean, 2), 0)
RECURSIVE SumSquares(_, _)
SumSquares(arr, mean) ==
  IF arr = <<>> THEN 0
  ELSE Pow2(Head(arr) - mean) + SumSquares(Tail(arr), mean)

\* the population standard deviation of a non-empty list of positions
StdDev(positions) ==
  LET arr == ToNum(positions)
      mean == calculateMean(arr)
      variance == SumSquares(arr, mean) \div Len(arr)
  IN  MathSqrt(variance)

\* calculateMean of integers, as a double: the sum is exact
F64Mean(arr) ==
  IF Len(arr) = 0 THEN F64Zero ELSE F64DivInt(F64FromInt(SumSeq(arr)), Len(arr))

\* arr.reduce((sum, x) => sum + Math.pow(x - mean, 2), 0) in doubles, from index i on;
\* Math.pow(d, 2) is the correctly rounded d * d
RECURSIVE F64SumSquares(_, _, _, _)
F64SumSquares(sum, arr, mean, i) ==
  IF i > Len(arr) THEN sum
  ELSE LET d == F64Sub(F64FromInt(arr[i]), mean)
       IN  F64SumSquares(F64Add(sum, F64Mul(d, d)), arr, mean, i + 1)

\* calculateVariance of integers, as a double: despite its name, the standard
\* deviation; 0 up to one element
calculateVariance(arr) ==
  IF Len(arr) <= 1 THEN F64Zero
  ELSE F64Sqrt(F64DivInt(F64SumSquares(F64Zero, arr, F64Mean(arr), 1), Len(arr)))

\* standard deviations that count a generator without positions as 0
RECURSIVE StdDevsFrom_EmptyAsZero(_, _)
StdDevsFrom_EmptyAsZero(pm, i) ==
  IF i > Len(pm) THEN <<>>
  ELSE IF Len(pm[i].positions) > 0
       THEN <<StdDev(pm[i].positions)>> \o StdDevsFrom_EmptyAsZero(pm, i + 1)
       ELSE <<0>> \o StdDevsFrom_EmptyAsZero(pm, i + 1)

\* Object.values(positionMatrix).forEach(positions => { if (positions.length > 0) ... })
RECURSIVE StdDevsFrom(_, _)
StdDevsFrom(pm, i) ==
  IF i > Len(pm) THEN <<>>
  ELSE IF Len(pm[i].positions) > 0
       THEN <<StdDev(pm[i].positions)>> \o StdDevsFrom(pm, i + 1)
       ELSE StdDevsFrom(pm, i + 1)

StdDevs(pm) == StdDevsFrom(pm, 1)

\* (labels.length - 1) / Math.sqrt(12)
MaxPossibleStdDev(labels) == Div(FromInt(Len(labels) - 1), MathSqrt(FromInt(12)))

---------------------------------------------------------------------------
(* calculateControversyScore(stage2Rankings, labelToModel) of analytics.js *)
(* stage2Rankings and labelToModel are optional values.                    *)

calculateControversyScore(stage2Rankings, labelToModel) ==
  IF ~IsSome(stage2Rankings) \/ Len(Get(stage2Rankings)) < 2 THEN Fin(0)
  ELSE IF ~IsSome(labelToModel) THEN TypeError   \* Object.keys(undefined)
  ELSE
    LET l2m == Get(labelToModel)
        labels == ObjectKeys(l2m)
        positionMatrix == PositionMatrix(Get(stage2Rankings), l2m)
        stdDevs == StdDevs(positionMatrix)
        avgStdDev == calculateMean(stdDevs)
        maxPossibleStdDev == MaxPossibleStdDev(labels)
    IN  MathMin(100, MathRound(JsTimes(JsDiv(Fin(avgStdDev), maxPossibleStdDev), 100)))

---------------------------------------------------------------------------
(* calculateControversyMetrics(rankings, labelToModel) of Stage2.jsx       *)

NullMetrics ==
  [tag |-> "null", controversyScore |-> NaN, stats |-> <<>>,
   positionMatrix |-> <<>>, labels |-> <<>>]

ThrownMetrics == [NullMetrics EXCEPT !.tag = "TypeError"]

\* stats[model] = { mean, variance, stdDev, positions } for the non-empty lists
RECURSIVE StatsFrom(_, _)
StatsFrom(pm, i) ==
  IF i > Len(pm) THEN <<>>
  ELSE IF Len(pm[i].positions) > 0
       THEN LET arr == ToNum(pm[i].positions)
                mean == SumSeq(arr) \div Len(arr)
                variance == SumSquares(arr, mean) \div Len(arr)
            IN  <<[model |-> pm[i].model, mean |-> mean, variance |-> variance,
                   stdDev |-> MathSqrt(variance), positions |-> pm[i].positions]>>
                \o StatsFrom(pm, i + 1)
       ELSE StatsFrom(pm, i + 1)

\* stdDevs.reduce((a, b) => a + b, 0) / stdDevs.length: 0 / 0 is NaN
AvgStdDevUnguarded(stdDevs) == JsDiv(Fin(SumSeq(stdDevs)), FromInt(Len(stdDevs)))

calculateControversyMetrics(rankings, labelToModel) ==
  IF ~IsSome(rankings) \/ Len(Get(rankings)) < 2 THEN NullMetrics
  ELSE IF ~IsSome(labelToModel) THEN ThrownMetrics   \* Object.keys(undefined)
  ELSE
    LET l2m == Get(labelToModel)
        labels == ObjectKeys(l2m)
        positionMatrix == PositionMatrix(Get(rankings), l2m)
        stats == StatsFrom(positionMatrix, 1)
        stdDevs == [i \in 1..Len(stats) |-> stats[i].stdDev]
        avgStdDev == AvgStdDevUnguarded(stdDevs)
        maxPossibleStdDev == MaxPossibleStdDev(labels)
    IN  [tag |-> "metrics",
         controversyScore |->
           MathMin(100, MathRound(JsTimes(JsDiv(avgStdDev, maxPossibleStdDev), 100))),
         stats |-> stats,
         positionMatrix |-> positionMatrix,
         labels |-> labels]

---------------------------------------------------------------------------
(* The history: conversations of messages.  A message has a role, and,     *)
(* optionally, stage1 (the individual responses), stage2 (the peer         *)
(* rankings) and metadata (with an optional label_to_model).               *)

\* a guard that does not look at the role of the message
Qualifies_AnyRole(msg) ==
  IsSome(msg.stage2) /\ IsSome(msg.metadata)

\* if (msg.role === 'assistant' && msg.stage2 && msg.metadata)
Qualifies(msg) ==
  msg.role = "assistant" /\ IsSome(msg.stage2) /\ IsSome(msg.metadata)

\* msg.metadata.label_to_model
LabelToModelOf(msg) == Get(msg.metadata).label_to_model

\* the order of String comparison on model names, as a rank
NameOrder == <<"W", "X", "Y", "Z">>

NameRank(m) == CHOOSE i \in 1..Len(NameOrder) : NameOrder[i] = m

\* the elements of an array
Range(arr) == {arr[i] : i \in 1..Len(arr)}

\* Set.prototype.add on a Set held as the list of its elements in insertion order
SetAdd(set, m) == IF m \in Range(set) THEN set ELSE Append(set, m)

\* msg.stage1.forEach(response => { if (response.model) models.add(response.model); })
RECURSIVE AddModels(_, _, _)
AddModels(set, stage1, i) ==
  IF i > Len(stage1) THEN set
  ELSE AddModels(IF Truthy(stage1[i].model) THEN SetAdd(set, stage1[i].model) ELSE set,
                 stage1, i + 1)

\* a scan that also collects the evaluators of the peer rankings
RECURSIVE AddModelsOfMessages_WithEvaluators(_, _, _)
AddModelsOfMessages_WithEvaluators(set, messages, i) ==
  IF i > Len(messages) THEN set
  ELSE AddModelsOfMessages_WithEvaluators(
         IF messages[i].role = "assistant" /\ IsSome(messages[i].stage1)
         THEN AddModels(AddModels(set, Get(messages[i].stage1), 1),
                        IF IsSome(messages[i].stage2) THEN Get(messages[i].stage2) ELSE <<>>, 1)
         ELSE set,
         messages, i + 1)

\* conv.messages.forEach(msg => ...) of extractAllModels
RECURSIVE AddModelsOfMessages(_, _, _)
AddModelsOfMessages(set, messages, i) ==
  IF i > Len(messages) THEN set
  ELSE AddModelsOfMessages(
         IF messages[i].role = "assistant" /\ IsSome(messages[i].stage1)
         THEN AddModels(set, Get(messages[i].stage1), 1)
         ELSE set,
         messages, i + 1)

\* conversations.forEach(conv => ...) of extractAllModels
RECURSIVE AddModelsOfConversations(_, _, _)
AddModelsOfConversations(set, convs, i) ==
  IF i > Len(convs) THEN set
  ELSE AddModelsOfConversations(
         AddModelsOfMessages(set, convs[i].messages, 1), convs, i + 1)

\* Array.prototype.sort() of distinct strings: ascending
RECURSIVE SortNames(_)
SortNames(names) ==
  IF names = {} THEN <<>>
  ELSE LET m == CHOOSE x \in names : \A y \in names : NameRank(x) <= NameRank(y)
       IN  <<m>> \o SortNames(names \ {m})

\* the models in the order in which the history first names them
extractAllModels_Unsorted(convs) == AddModelsOfConversations(<<>>, convs, 1)

\* Array.from(models).sort()
extractAllModels(convs) == SortNames(Range(AddModelsOfConversations(<<>>, convs, 1)))

---------------------------------------------------------------------------
(* calculateModelPersonality(modelName, conversations).  The accumulator   *)
(* holds givenRankings, receivedRankings (objects: entry lists in key      *)
(* insertion order), selfRankings, and whether a TypeError was thrown.     *)

\* obj[key].push(p), creating obj[key] = [] first when absent
PushOrCreate(obj, m, p) ==
  IF HasKey(obj, m) THEN PushPosition(obj, m, p)
  ELSE Append(obj, [model |-> m, positions |-> <<p>>])

EmptyAcc == [given |-> <<>>, received |-> <<>>, self |-> <<>>, thrown |-> FALSE]

\* myRanking.parsed_ranking.forEach((label, position) => ...), lines 155-168
RECURSIVE GivenFromParsed(_, _, _, _, _)
GivenFromParsed(acc, parsed, l2mOpt, modelName, i) ==
  IF acc.thrown \/ i > Len(parsed) THEN acc
  ELSE IF ~IsSome(l2mOpt) THEN [acc EXCEPT !.thrown = TRUE]  \* undefined[label.trim()]
  ELSE LET targetModel == Lookup(Get(l2mOpt), Trim(parsed[i]))
           acc2 == IF Truthy(targetModel)
                   THEN [acc EXCEPT
                           !.given = PushOrCreate(@, targetModel, i),
                           !.self = IF targetModel = modelName THEN Append(@, i) ELSE @]
                   ELSE acc
       IN  GivenFromParsed(acc2, parsed, l2mOpt, modelName, i + 1)

\* ranking.parsed_ranking.forEach((label, position) => ...), lines 174-182
RECURSIVE ReceivedFromParsed(_, _, _, _, _, _)
ReceivedFromParsed(acc, parsed, l2mOpt, modelName, evaluator, i) ==
  IF acc.thrown \/ i > Len(parsed) THEN acc
  ELSE IF ~IsSome(l2mOpt) THEN [acc EXCEPT !.thrown = TRUE]  \* undefined[label.trim()]
  ELSE LET targetModel == Lookup(Get(l2mOpt), Trim(parsed[i]))
           acc2 == IF targetModel = modelName
                   THEN [acc EXCEPT !.received = PushOrCreate(@, evaluator, i)]
                   ELSE acc
       IN  ReceivedFromParsed(acc2, parsed, l2mOpt, modelName, evaluator, i + 1)

\* msg.stage2.forEach(ranking => ...), lines 172-184
RECURSIVE ReceivedFromRankings(_, _, _, _, _)
ReceivedFromRankings(acc, stage2, l2mOpt, modelName, r) ==
  IF acc.thrown \/ r > Len(stage2) THEN acc
  ELSE ReceivedFromRankings(
         IF stage2[r].model # modelName /\ IsSome(stage2[r].parsed_ranking)
         THEN ReceivedFromParsed(acc, Get(stage2[r].parsed_ranking), l2mOpt,
                                 modelName, stage2[r].model, 1)
         ELSE acc,
         stage2, l2mOpt, modelName, r + 1)

\* msg.stage2.find(r => r.model === modelName): the index of the first match, or 0
FindRanking(stage2, modelName) ==
  IF \E r \in 1..Len(stage2) : stage2[r].model = modelName
  THEN CHOOSE r \in 1..Len(stage2) :
         /\ stage2[r].model = modelName
         /\ \A q \in 1..(r - 1) : stage2[q].model # modelName
  ELSE 0

\* the body of conv.messages.forEach for one message, lines 150-185
PersonalityOfMessage(acc, msg, modelName) ==
  IF acc.thrown \/ ~Qualifies(msg) THEN acc
  ELSE LET stage2 == Get(msg.stage2)
           l2mOpt == LabelToModelOf(msg)
           mine == FindRanking(stage2, modelName)
           acc1 == IF mine # 0 /\ IsSome(stage2[mine].parsed_ranking)
                   THEN GivenFromParsed(acc, Get(stage2[mine].parsed_ranking), l2mOpt,
                                        modelName, 1)
                   ELSE acc
       IN  ReceivedFromRankings(acc1, stage2, l2mOpt, modelName, 1)

RECURSIVE PersonalityOfMessages(_, _, _, _)
PersonalityOfMessages(acc, messages, modelName, i) ==
  IF i > Len(messages) THEN acc
  ELSE PersonalityOfMessages(PersonalityOfMessage(acc, messages[i], modelName),
                             messages, modelName, i + 1)

RECURSIVE PersonalityOfConversations(_, _, _, _)
PersonalityOfConversations(acc, convs, modelName, i) ==
  IF i > Len(convs) THEN acc
  ELSE PersonalityOfConversations(
         PersonalityOfMessages(acc, convs[i].messages, modelName, 1),
         convs, modelName, i + 1)

\* Object.values(obj).reduce((sum, arr) => sum + arr.length, 0)
RECURSIVE TotalLength(_)
TotalLength(obj) ==
  IF obj = <<>> THEN 0 ELSE Len(Head(obj).positions) + TotalLength(Tail(obj))

\* { avgRank: calculateMean(positions), count: positions.length } per key
RankStats(obj) ==
  [i \in 1..Len(obj) |->
     [model |-> obj[i].model,
      avgRank |-> calculateMean(ToNum(obj[i].positions)),
      count |-> Len(obj[i].positions)]]

\* Object.values(receivedRankings).flat()
RECURSIVE Flat(_)
Flat(obj) == IF obj = <<>> THEN <<>> ELSE Head(obj).positions \o Flat(Tail(obj))

\* ranking_frequency: an object with integer keys, which enumerate in ascending order
RankingFrequency(allReceived) ==
  LET keys == {allReceived[i] : i \in 1..Len(allReceived)}
  IN  [p \in keys |-> Cardinality({i \in 1..Len(allReceived) : allReceived[i] = p})]

\* statistics whose average_rank_received is the mean of the evaluators' means
PersonalityStats_MeanOfMeans(modelName, acc) ==
  LET allReceived == Flat(acc.received)
      means == [i \in 1..Len(acc.received) |-> calculateMean(ToNum(acc.received[i].positions))]
  IN  [modelName |-> modelName,
       totalRankingsGiven |-> TotalLength(acc.given),
       totalRankingsReceived |-> TotalLength(acc.received),
       self_assessment |-> calculateMean(ToNum(acc.self)),
       self_assessment_count |-> Len(acc.self),
       givenRankings |-> RankStats(acc.given),
       receivedRankings |-> RankStats(acc.received),
       average_rank_received |-> calculateMean(means),
       consistency |-> calculateVariance(allReceived),
       ranking_frequency |-> RankingFrequency(allReceived)]

\* the statistics record, lines 190-229
PersonalityStats(modelName, acc) ==
  LET allReceived == Flat(acc.received)
  IN  [modelName |-> modelName,
       totalRankingsGiven |-> TotalLength(acc.given),
       totalRankingsReceived |-> TotalLength(acc.received),
       self_assessment |-> calculateMean(ToNum(acc.self)),
       self_assessment_count |-> Len(acc.self),
       givenRankings |-> RankStats(acc.given),
       receivedRankings |-> RankStats(acc.received),
       average_rank_received |-> calculateMean(ToNum(allReceived)),
       consistency |-> calculateVariance(allReceived),
       ranking_frequency |-> RankingFrequency(allReceived)]

\* the accumulated ranking data of one model over the history, lines 142-187
PersonalityData(modelName, convs) ==
  PersonalityOfConversations(EmptyAcc, convs, modelName, 1)

\* calculateModelPersonality: the statistics, or thrown
calculateModelPersonality(modelName, convs) ==
  LET acc == PersonalityData(modelName, convs)
  IN  [thrown |-> acc.thrown, stats |-> PersonalityStats(modelName, acc)]

---------------------------------------------------------------------------
(* buildPreferenceMatrix(conversations, models).  The matrix is a function *)
(* of the evaluator and of the target; null is None.                       *)

\* matrix[model1][model2] = [] for all pairs, lines 239-244
EmptyMatrix(models) ==
  [e \in Range(models) |-> [t \in Range(models) |-> <<>>]]

\* ranking.parsed_ranking.forEach((label, position) => ...), lines 253-258
RECURSIVE MatrixFromParsed(_, _, _, _, _, _)
MatrixFromParsed(acc, parsed, l2mOpt, evaluator, models, i) ==
  IF acc.thrown \/ i > Len(parsed) THEN acc
  ELSE IF ~IsSome(l2mOpt) THEN [acc EXCEPT !.thrown = TRUE]  \* undefined[label.trim()]
  ELSE LET targetModel == Lookup(Get(l2mOpt), Trim(parsed[i]))
           acc2 == IF /\ Truthy(targetModel)
                      /\ evaluator \in Range(models)
                      /\ targetModel \in Range(models)
                   THEN [acc EXCEPT !.matrix[evaluator][targetModel] = Append(@, i)]
                   ELSE acc
       IN  MatrixFromParsed(acc2, parsed, l2mOpt, evaluator, models, i + 1)

\* msg.stage2.forEach(ranking => ...), lines 250-260
RECURSIVE MatrixFromRankings(_, _, _, _, _)
MatrixFromRankings(acc, stage2, l2mOpt, models, r) ==
  IF acc.thrown \/ r > Len(stage2) THEN acc
  ELSE MatrixFromRankings(
         IF IsSome(stage2[r].parsed_ranking) /\ Truthy(stage2[r].model)
         THEN MatrixFromParsed(acc, Get(stage2[r].parsed_ranking), l2mOpt,
                               stage2[r].model, models, 1)
         ELSE acc,
         stage2, l2mOpt, models, r + 1)

\* a population pass that resolves every turn of a conversation with the mapping
\* of the conversation's first message that has metadata
RECURSIVE MatrixFromMessages_StaleMapping(_, _, _, _)
MatrixFromMessages_StaleMapping(acc, messages, models, i) ==
  IF i > Len(messages) THEN acc
  ELSE MatrixFromMessages_StaleMapping(
         IF acc.thrown \/ ~Qualifies(messages[i]) THEN acc
         ELSE MatrixFromRankings(
                acc, Get(messages[i].stage2),
                LabelToModelOf(messages[CHOOSE j \in 1..Len(messages) :
                                          /\ IsSome(messages[j].metadata)
                                          /\ \A k \in 1..(j - 1) : ~IsSome(messages[k].metadata)]),
                models, 1),
         messages, models, i + 1)

RECURSIVE MatrixFromMessages(_, _, _, _)
MatrixFromMessages(acc, messages, models, i) ==
  IF i > Len(messages) THEN acc
  ELSE MatrixFromMessages(
         IF acc.thrown \/ ~Qualifies(messages[i]) THEN acc
         ELSE MatrixFromRankings(acc, Get(messages[i].stage2),
                                 LabelToModelOf(messages[i]), models, 1),
         messages, models, i + 1)

\* a population pass that reads the first conversation only
MatrixFromConversations_FirstOnly(acc, convs, models, i) ==
  IF i > Len(convs) THEN acc
  ELSE MatrixFromMessages(acc, convs[1].messages, models, 1)

RECURSIVE MatrixFromConversations(_, _, _, _)
MatrixFromConversations(acc, convs, models, i) ==
  IF i > Len(convs) THEN acc
  ELSE MatrixFromConversations(
         MatrixFromMessages(acc, convs[i].messages, models, 1), convs, models, i + 1)

\* an average that is 0 for a pair without positions
AverageOrNull_ZeroWhenEmpty(positions) ==
  Some(calculateMean(ToNum(positions)))

\* positions.length > 0 ? calculateMean(positions) : null
AverageOrNull(positions) ==
  IF Len(positions) > 0 THEN Some(calculateMean(ToNum(positions))) ELSE None

\* buildPreferenceMatrix: the matrix of average ranks, or thrown
buildPreferenceMatrix(convs, models) ==
  LET acc == MatrixFromConversations(
               [matrix |-> EmptyMatrix(models), thrown |-> FALSE], convs, models, 1)
  IN  [thrown |-> acc.thrown,
       avgMatrix |-> [e \in Range(models) |->
                        [t \in Range(models) |-> AverageOrNull(acc.matrix[e][t])]]]

---------------------------------------------------------------------------
(* calculatePersonalityProfiles(conversations), reading the clock.         *)

ThrownProfiles ==
  [tag |-> "TypeError", profiles |-> <<>>, models |-> <<>>, matrix |-> <<>>,
   summary |-> None]

\* { profiles: {}, models: [], matrix: {}, summary: null }
EmptyProfiles == [ThrownProfiles EXCEPT !.tag = "ok"]

\* the summary record, lines 369-374; toISOString is one-to-one on clock readings
Summary(convs, allModels, clock) ==
  [total_conversations |-> Len(convs),
   total_models |-> Len(allModels),
   models |-> allModels,
   generated_at |-> clock]

calculatePersonalityProfiles(convsOpt, clock) ==
  IF ~IsSome(convsOpt) \/ Len(Get(convsOpt)) = 0 THEN EmptyProfiles
  ELSE
    LET convs == Get(convsOpt)
        allModels == extractAllModels(convs)
        each == [m \in Range(allModels) |-> calculateModelPersonality(m, convs)]
        matrix == buildPreferenceMatrix(convs, allModels)
    IN  IF (\E m \in Range(allModels) : each[m].thrown) \/ matrix.thrown
        THEN ThrownProfiles
        ELSE [tag |-> "ok",
              profiles |-> [m \in Range(allModels) |-> each[m].stats],
              models |-> allModels,
              matrix |-> matrix.avgMatrix,
              summary |-> Some(Summary(convs, allModels, clock))]

---------------------------------------------------------------------------
(* getControversyScores(conversations).                                    *)

\* conv.messages.forEach(msg => ...), lines 386-391: the running maximum
RECURSIVE MaxControversy(_, _, _)
MaxControversy(maxControversy, messages, i) ==
  IF maxControversy.tag = "TypeError" \/ i > Len(messages) THEN maxControversy
  ELSE IF ~Qualifies(messages[i]) THEN MaxControversy(maxControversy, messages, i + 1)
  ELSE LET sc == calculateControversyScore(messages[i].stage2, LabelToModelOf(messages[i]))
       IN  MaxControversy(IF sc.tag = "TypeError" THEN TypeError
                          ELSE MathMax(maxControversy, sc),
                          messages, i + 1)

\* the record of one conversation, lines 393-398 (title and created_at are copied
\* from the conversation like its id)
ScoreRecord(conv) ==
  [conversationId |-> conv.id,
   controversyScore |-> MaxControversy(Fin(0), conv.messages, 1)]

\* conversations.map((conv, index) => ...)
UnsortedScores(convs) == [i \in 1..Len(convs) |-> ScoreRecord(convs[i])]

\* the comparator (a, b) => b.controversyScore - a.controversyScore; NaN counts as 0
Compare(a, b) ==
  IF a.controversyScore.tag # "num" \/ b.controversyScore.tag # "num" THEN 0
  ELSE b.controversyScore.val - a.controversyScore.val

\* whether the comparator orders the records consistently
ConsistentComparator(recs) ==
  \A i, j, k \in 1..Len(recs) :
    /\ (Compare(recs[i], recs[j]) = 0 /\ Compare(recs[j], recs[k]) = 0)
         => Compare(recs[i], recs[k]) = 0
    /\ (Compare(recs[i], recs[j]) < 0 /\ Compare(recs[j], recs[k]) = 0)
         => Compare(recs[i], recs[k]) < 0
    /\ (Compare(recs[i], recs[j]) = 0 /\ Compare(recs[j], recs[k]) < 0)
         => Compare(recs[i], recs[k]) < 0

\* insert a record behind the records it does not precede: a stable insertion
RECURSIVE InsertStable(_, _)
InsertStable(sorted, rec) ==
  IF sorted = <<>> THEN <<rec>>
  ELSE IF Compare(rec, Head(sorted)) < 0 THEN <<rec>> \o sorted
  ELSE <<Head(sorted)>> \o InsertStable(Tail(sorted), rec)

RECURSIVE StableSortFrom(_, _, _)
StableSortFrom(sorted, recs, i) ==
  IF i > Len(recs) THEN sorted
  ELSE StableSortFrom(InsertStable(sorted, recs[i]), recs, i + 1)

\* the rearrangements of an array
Rearrangements(recs) ==
  {[i \in 1..Len(recs) |-> recs[f[i]]] :
     f \in {g \in [1..Len(recs) -> 1..Len(recs)] :
              \A i, j \in 1..Len(recs) : g[i] = g[j] => i = j}}

\* Array.prototype.sort(comparefn): stable; with an inconsistent comparator the
\* order is implementation-defined, so every rearrangement is possible
SortOutcomes(recs) ==
  IF ConsistentComparator(recs) THEN {StableSortFrom(<<>>, recs, 1)}
  ELSE Rearrangements(recs)

ThrownScores == [tag |-> "TypeError", scores |-> <<>>]

\* the possible results of getControversyScores(conversations)
getControversyScores(convsOpt) ==
  IF ~IsSome(convsOpt) THEN {ThrownScores}   \* undefined.map
  ELSE LET recs == UnsortedScores(Get(convsOpt))
       IN  IF \E i \in 1..Len(recs) : recs[i].controversyScore.tag = "TypeError"
           THEN {ThrownScores}
           ELSE {[tag |-> "ok", scores |-> out] : out \in SortOutcomes(recs)}

---------------------------------------------------------------------------
(* State.                                                                  *)

VARIABLES
  rankings,        \* the peer rankings of the turn under view (msg.stage2), optional
  labelToModel,    \* that turn's label -> model mapping, optional
  score,           \* what calculateControversyScore returned for the turn, once called
  metrics,         \* what calculateControversyMetrics returned for the turn, once rendered
  conversations,   \* the conversation history handed to the analytics functions
  profileCalls,    \* the results of the calls of calculatePersonalityProfiles so far
  controversy,     \* what getControversyScores returned, once called
  now,             \* the wall clock (milliseconds) read by new Date()
  responses,       \* the responses prop of the Stage 1 view (msg.stage1), optional
  stage1State,     \* the state of the Stage 1 component: activeTab
  stage2State      \* the state of the Stage 2 component: activeTab, expandedMetrics

vars == <<rankings, labelToModel, score, metrics, conversations, profileCalls,
          controversy, now, responses, stage1State, stage2State>>

\* the props and the state of the two views
viewVars == <<responses, stage1State, stage2State>>

\* useState(0) of Stage1, line 6
Stage1Mounted == [activeTab |-> 0]

\* useState(0) and useState(false) of Stage2, lines 122-123
Stage2Mounted == [activeTab |-> 0, expandedMetrics |-> FALSE]

\* no Stage 1 view is shown and the Stage 2 component is in its first state
ViewsMounted ==
  /\ responses = None
  /\ stage1State = Stage1Mounted
  /\ stage2State = Stage2Mounted

---------------------------------------------------------------------------
(* Inputs of one turn.                                                     *)

LabelNames == <<"A", "B", "C">>

ModelNames == <<"X", "Y", "Z">>

Label(i) == <<LabelNames[i]>>

Labels == {Label(i) : i \in 1..Len(LabelNames)}

Models == {ModelNames[i] : i \in 1..Len(ModelNames)}

Max(S) == CHOOSE x \in S : \A y \in S : y <= x

\* sequences over S of length at most n
SeqsUpTo(S, n) == UNION {[1..k -> S] : k \in 0..n}

\* mappings with keys A, B, ... in insertion order; model names are interchangeable,
\* so a mapping uses the first unused model name whenever it uses a new one
MappingsOf(k) ==
  {[i \in 1..k |-> [key |-> Label(i), value |-> ModelNames[f[i]]]] :
     f \in {g \in [1..k -> 1..Len(ModelNames)] :
              \A i \in 1..k : g[i] <= 1 + Max({0} \cup {g[j] : j \in 1..(i - 1)})}}

TurnMappings == {None} \cup {Some(m) : m \in UNION {MappingsOf(k) : k \in 0..Len(LabelNames)}}

ParsedRankings == {None} \cup {Some(q) : q \in SeqsUpTo(Labels, MaxLen)}

\* the r-th evaluator of a turn
Evaluator(r) == ModelNames[((r - 1) % Len(ModelNames)) + 1]

TurnRankings ==
  {None} \cup
  {Some([r \in 1..Len(ps) |-> [model |-> Evaluator(r), parsed_ranking |-> ps[r]]]) :
     ps \in UNION {[1..k -> ParsedRankings] : k \in 0..MaxRankings}}

---------------------------------------------------------------------------
(* Scoring one turn: the analytics scorer and the Stage 2 view.            *)

Init ==
  /\ rankings \in TurnRankings
  /\ labelToModel \in TurnMappings
  /\ score = None
  /\ metrics = None
  /\ conversations = None
  /\ profileCalls = <<>>
  /\ controversy = None
  /\ now = 0
  /\ ViewsMounted

\* a caller scores the turn with calculateControversyScore
ScoreTurn ==
  /\ score = None
  /\ score' = Some(calculateControversyScore(rankings, labelToModel))
  /\ UNCHANGED <<rankings, labelToModel, metrics, conversations, profileCalls,
                 controversy, now>>
  /\ UNCHANGED viewVars

\* the Stage 2 view renders the turn: calculateControversyMetrics(rankings, labelToModel)
RenderStage2 ==
  /\ metrics = None
  /\ metrics' = Some(calculateControversyMetrics(rankings, labelToModel))
  /\ UNCHANGED <<rankings, labelToModel, score, conversations, profileCalls,
                 controversy, now>>
  /\ UNCHANGED viewVars

Next == ScoreTurn \/ RenderStage2

Spec == Init /\ [][Next]_vars

---------------------------------------------------------------------------
(* Properties of the controversy scorer (specification Spec).              *)

\* the genuine scores: the integers 0..100
GenuineScores == {Fin(FromInt(n)) : n \in 0..100}

\* the number of peer rankings of the turn
NumRankings == IF IsSome(rankings) THEN Len(Get(rankings)) ELSE 0

\* K, the number of labels of the turn's mapping
K == Len(Get(labelToModel))

\* the label sequence of the r-th ranking
ParsedOf(r) == ParsedOrEmpty(Get(rankings)[r])

\* the (ranking, index) pairs whose label resolves to generator g
Hits(g) ==
  {<<r, i>> \in (1..NumRankings) \X (1..(MaxLen + 1)) :
     i <= Len(ParsedOf(r)) /\ Lookup(Get(labelToModel), Trim(ParsedOf(r)[i])) = g}

\* the generators named by the turn's mapping
Generators == {Get(labelToModel)[i].value : i \in 1..K}

\* no generator receives any position
NoPositionObserved == \A g \in Generators : Hits(g) = {}

\* C1: whenever the mapping is present, the analytics scorer and the Stage 2
\* scorer return an integer in 0..100 or the no-data sentinel (null), never a
\* negative number, a number above 100 or NaN.
C1_ScoreInRange ==
  IsSome(labelToModel) =>
    /\ IsSome(score) => Get(score) \in GenuineScores
    /\ IsSome(metrics) =>
         \/ Get(metrics).tag = "null"
         \/ Get(metrics).tag = "metrics" /\ Get(metrics).controversyScore \in GenuineScores

\* C2: with fewer than 2 peer rankings, or fewer than 2 labels, the analytics
\* scorer returns a sentinel that is not one of the genuine scores (so not 0).
C2_SentinelWhenTooFew ==
  (IsSome(score) /\ IsSome(labelToModel) /\ (NumRankings < 2 \/ K < 2)) =>
    /\ Get(score) \notin GenuineScores
    /\ Get(score).tag # "TypeError"

\* C3: with at least 2 peer rankings of which no label resolves, the analytics
\* scorer returns the no-data sentinel and not the genuine score 0.
C3_SentinelWhenNoData ==
  (IsSome(score) /\ IsSome(labelToModel) /\ NumRankings >= 2 /\ NoPositionObserved) =>
    /\ Get(score) \notin GenuineScores
    /\ Get(score).tag # "TypeError"

\* every evaluator produced the same ordered label sequence
AllRankingsIdentical ==
  /\ IsSome(rankings)
  /\ \A r \in 1..NumRankings : IsSome(Get(rankings)[r].parsed_ranking)
  /\ \A r1, r2 \in 1..NumRankings : ParsedOf(r1) = ParsedOf(r2)

\* no two entries of a ranking resolve to the same generator
NoGeneratorTwiceInARanking ==
  \A g \in Generators : \A h1, h2 \in Hits(g) : h1[1] = h2[1] => h1 = h2

RECURSIVE PositionsOfHits(_)
PositionsOfHits(H) ==
  IF H = {} THEN <<>>
  ELSE LET h == CHOOSE x \in H : TRUE
       IN  <<h[2]>> \o PositionsOfHits(H \ {h})

\* the sum of the standard deviations over a set of generators
RECURSIVE SumStdDevOver(_)
SumStdDevOver(G) ==
  IF G = {} THEN 0
  ELSE LET g == CHOOSE x \in G : TRUE
       IN  StdDev(PositionsOfHits(Hits(g))) + SumStdDevOver(G \ {g})

\* round(min(100, 100 * avg_std / max_std)), avg_std over the observed generators only
FormulaScore ==
  LET observed == {g \in Generators : Hits(g) # {}}
      avgStd == SumStdDevOver(observed) \div Cardinality(observed)
      maxStd == Div(FromInt(K - 1), MathSqrt(FromInt(12)))
      ratio100 == 100 * Div(avgStd, maxStd)
      capped == IF ratio100 < FromInt(100) THEN ratio100 ELSE FromInt(100)
  IN  Fin(FromInt(RoundFix(capped)))

\* C5: with at least 2 rankings, K >= 2 and some observed position, the score is
\* round(min(100, 100 * avg_std / max_std)) with avg_std the mean of the standard
\* deviations of the non-empty position lists and max_std = (K - 1) / sqrt(12).
C5_ScoreFormula ==
  (/\ IsSome(score)
   /\ IsSome(labelToModel)
   /\ NumRankings >= 2
   /\ K >= 2
   /\ ~NoPositionObserved) =>
    Get(score) = FormulaScore

\* the example: A,B,C -> X,Y,Z with rankings [A,B,C] and [C,B,A] scores 100
C5_Witness ==
  /\ IsSome(score)
  /\ labelToModel = Some(<<[key |-> Label(1), value |-> "X"],
                           [key |-> Label(2), value |-> "Y"],
                           [key |-> Label(3), value |-> "Z"]>>)
  /\ rankings = Some(<<[model |-> "X",
                        parsed_ranking |-> Some(<<Label(1), Label(2), Label(3)>>)],
                       [model |-> "Y",
                        parsed_ranking |-> Some(<<Label(3), Label(2), Label(1)>>)]>>)
  /\ Get(score) = Fin(FromInt(100))
  /\ Get(score) = FormulaScore

---------------------------------------------------------------------------
(* Histories.                                                              *)

UserMessage == [role |-> "user", stage1 |-> None, stage2 |-> None, metadata |-> None]

\* the individual responses of the given models
Stage1Of(names) == Some([i \in 1..Len(names) |-> [model |-> names[i]]])

\* peer rankings: the i-th is owned by owners[i] and holds the sequence parsed[i]
Stage2Of(owners, parsed) ==
  Some([i \in 1..Len(owners) |-> [model |-> owners[i], parsed_ranking |-> Some(parsed[i])]])

\* a mapping from the first labels to the given models
MappingOf(names) == [i \in 1..Len(names) |-> [key |-> Label(i), value |-> names[i]]]

CouncilMessage(names, l2mOpt, owners, parsed) ==
  [role |-> "assistant",
   stage1 |-> Stage1Of(names),
   stage2 |-> Stage2Of(owners, parsed),
   metadata |-> Some([label_to_model |-> l2mOpt])]

\* metadata without label_to_model
NoMappingTurn ==
  CouncilMessage(<<"X", "Y">>, None, <<"X", "Y">>,
                 <<<<Label(1), Label(2)>>, <<Label(2), Label(1)>>>>)

\* a mapping of a single label
SingleLabelTurn ==
  CouncilMessage(<<"X">>, Some(MappingOf(<<"X">>)), <<"X", "Y">>,
                 <<<<Label(1)>>, <<Label(1)>>>>)

\* both evaluators agree
AgreeTurn ==
  CouncilMessage(<<"X", "Y">>, Some(MappingOf(<<"X", "Y">>)), <<"X", "Y">>,
                 <<<<Label(1), Label(2)>>, <<Label(1), Label(2)>>>>)

\* the evaluators rank in opposite orders
SplitTurn ==
  CouncilMessage(<<"X", "Y">>, Some(MappingOf(<<"X", "Y">>)), <<"X", "Y">>,
                 <<<<Label(1), Label(2)>>, <<Label(2), Label(1)>>>>)

\* three responses, the evaluators disagree about the last two
PartlySplitTurn ==
  CouncilMessage(<<"Z", "Y", "X">>, Some(MappingOf(<<"X", "Y", "Z">>)), <<"Y", "Z">>,
                 <<<<Label(1), Label(2), Label(3)>>, <<Label(1), Label(3), Label(2)>>>>)

MessagePool ==
  {UserMessage, NoMappingTurn, SingleLabelTurn, AgreeTurn, SplitTurn, PartlySplitTurn}

\* the histories: conversation i has id i
Histories ==
  {[i \in 1..Len(ms) |-> [id |-> i, messages |-> ms[i]]] :
     ms \in SeqsUpTo(SeqsUpTo(MessagePool, MaxTurns), MaxSessions)}

HistoryInputs == {None} \cup {Some(h) : h \in Histories}

---------------------------------------------------------------------------
(* Analytics over a history.                                               *)

InitHistory ==
  /\ rankings = None
  /\ labelToModel = None
  /\ score = None
  /\ metrics = None
  /\ conversations \in HistoryInputs
  /\ profileCalls = <<>>
  /\ controversy = None
  /\ now = 0
  /\ ViewsMounted

\* the clock advances
Tick ==
  /\ now < MaxClock
  /\ now' = now + 1
  /\ UNCHANGED <<rankings, labelToModel, score, metrics, conversations, profileCalls,
                 controversy>>
  /\ UNCHANGED viewVars

\* a caller invokes calculatePersonalityProfiles(conversations)
ViewProfiles ==
  /\ Len(profileCalls) < MaxCalls
  /\ profileCalls' = Append(profileCalls, calculatePersonalityProfiles(conversations, now))
  /\ UNCHANGED <<rankings, labelToModel, score, metrics, conversations, controversy, now>>
  /\ UNCHANGED viewVars

\* the argument as a call with an array of length n as result would leave it had
\* the sort of line 401 been applied to the argument itself: conversation
\* result.scores[k].conversationId at index k
ConversationsAfterScores_SortedInPlace(convsOpt, result) ==
  IF IsSome(convsOpt) /\ result.tag = "ok"
  THEN Some([k \in 1..Len(result.scores) |->
               Get(convsOpt)[CHOOSE c \in 1..Len(Get(convsOpt)) :
                               Get(convsOpt)[c].id = result.scores[k].conversationId]])
  ELSE convsOpt

\* the argument after getControversyScores: conversations.map (line 383) builds
\* the array that line 401 sorts, and nothing is assigned to a conversation
ConversationsAfterScores(convsOpt, result) == convsOpt

\* a caller invokes getControversyScores(conversations)
ViewControversy ==
  /\ controversy = None
  /\ \E result \in getControversyScores(conversations) :
       /\ controversy' = Some(result)
       /\ conversations' = ConversationsAfterScores(conversations, result)
  /\ UNCHANGED <<rankings, labelToModel, score, metrics, profileCalls, now>>
  /\ UNCHANGED viewVars

NextHistory == Tick \/ ViewProfiles \/ ViewControversy

SpecHistory == InitHistory /\ [][NextHistory]_vars

---------------------------------------------------------------------------
(* Histories of partial and anomalous records.                             *)

\* label C is not a key of the mapping; one label carries trailing whitespace
UnresolvedLabelTurn ==
  CouncilMessage(<<"X", "Y">>, Some(MappingOf(<<"X", "Y">>)), <<"X", "Y">>,
                 <<<<Label(3), Label(1), Label(2)>>,
                   <<Label(2) \o <<" ">>, Label(3), Label(1)>>>>)

\* a council turn without peer rankings, whose responses name a further generator
NoStage2Turn ==
  [CouncilMessage(<<"X", "W">>, Some(MappingOf(<<"X", "W">>)), <<>>, <<>>)
     EXCEPT !.stage2 = None]

\* a council turn without metadata
NoMetadataTurn == [SplitTurn EXCEPT !.metadata = None]

\* an asker turn that carries council data
AskerTurn == [SplitTurn EXCEPT !.role = "user"]

\* the first peer ranking has no parsed sequence
NoParsedTurn ==
  [SplitTurn EXCEPT !.stage2 =
     Some(<<[model |-> "X", parsed_ranking |-> None],
            [model |-> "Y", parsed_ranking |-> Some(<<Label(2), Label(1)>>)]>>)]

\* W has no individual response, but is an evaluator and a value of the mapping
UnknownIdentityTurn ==
  CouncilMessage(<<"X", "Y">>, Some(MappingOf(<<"X", "W">>)), <<"X", "W">>,
                 <<<<Label(1), Label(2)>>, <<Label(2), Label(1)>>>>)

\* two peer rankings are owned by the same generator
TwiceOwnedTurn ==
  CouncilMessage(<<"X", "Y">>, Some(MappingOf(<<"X", "Y">>)), <<"X", "X">>,
                 <<<<Label(1), Label(2)>>, <<Label(2), Label(1)>>>>)

\* a turn that gives the labels to the generators the other way round than
\* SplitTurn, its rankings written with blanks around some labels
RelabelledTurn ==
  CouncilMessage(<<"X", "Y">>, Some(MappingOf(<<"Y", "X">>)), <<"X", "Y">>,
                 <<<<<<" ">> \o Label(1), Label(2)>>,
                   <<Label(1), <<" ">> \o Label(2) \o <<" ">>>>>>)

PartialPool ==
  {UnresolvedLabelTurn, NoStage2Turn, NoMetadataTurn, AskerTurn, NoParsedTurn,
   UnknownIdentityTurn, TwiceOwnedTurn, SplitTurn, RelabelledTurn}

\* the number of messages of a history
RECURSIVE TotalTurns(_)
TotalTurns(h) == IF h = <<>> THEN 0 ELSE Len(Head(h).messages) + TotalTurns(Tail(h))

\* the partial histories: conversation i has id i
PartialHistories ==
  {h \in {[i \in 1..Len(ms) |-> [id |-> i, messages |-> ms[i]]] :
            ms \in SeqsUpTo(SeqsUpTo(PartialPool, MaxTurns), MaxSessions)} :
     TotalTurns(h) <= MaxPartialTurns}

InitPartial ==
  /\ rankings = None
  /\ labelToModel = None
  /\ score = None
  /\ metrics = None
  /\ conversations \in {Some(h) : h \in PartialHistories}
  /\ profileCalls = <<>>
  /\ controversy = None
  /\ now = 0
  /\ ViewsMounted

NextPartial == ViewProfiles \/ ViewControversy

SpecPartial == InitPartial /\ [][NextPartial]_vars

---------------------------------------------------------------------------
(* A history of which one turn is under view in Stage 2.                   *)

\* the turns of a history
TurnsOf(h) == UNION {Range(h[c].messages) : c \in 1..Len(h)}

\* msg.metadata?.label_to_model of the turn under view
ViewedMapping(msg) == IF IsSome(msg.metadata) THEN LabelToModelOf(msg) ELSE None

FrameHistories == {h \in PartialHistories : TotalTurns(h) <= MaxFrameTurns}

\* a history is loaded and no turn or one of its turns is under view
InitFrame ==
  /\ conversations \in {Some(h) : h \in FrameHistories}
  /\ \/ rankings = None /\ labelToModel = None
     \/ \E msg \in TurnsOf(Get(conversations)) :
          rankings = msg.stage2 /\ labelToModel = ViewedMapping(msg)
  /\ score = None
  /\ metrics = None
  /\ profileCalls = <<>>
  /\ controversy = None
  /\ now = 0
  /\ ViewsMounted

NextFrame == ScoreTurn \/ RenderStage2 \/ ViewProfiles \/ ViewControversy

SpecFrame == InitFrame /\ [][NextFrame]_vars

---------------------------------------------------------------------------
(* Claims about the analytics over a history.                              *)

\* the history handed to the analytics functions
History == Get(conversations)

\* the qualifying turns of a conversation
QualifyingTurns(conv) ==
  {i \in 1..Len(conv.messages) : Qualifies(conv.messages[i])}

\* every qualifying turn of the history carries a label -> model mapping
AllTurnsMapped ==
  \A c \in 1..Len(History) : \A i \in QualifyingTurns(History[c]) :
    IsSome(LabelToModelOf(History[c].messages[i]))

\* C6: two calls of calculatePersonalityProfiles on the same unmodified history
\* return equal results, every field of summary included.
C6_Idempotent ==
  Len(profileCalls) >= 2 => profileCalls[1] = profileCalls[2]

\* the statistics of one generator, the given and received rankings as mappings
\* without their key order
StatsContent(stats) ==
  [stats EXCEPT !.givenRankings = Range(@), !.receivedRankings = Range(@)]

\* the same generator list, per-generator statistics and matrix entries
SameProfiles(a, b) ==
  /\ a.tag = b.tag
  /\ a.models = b.models
  /\ a.matrix = b.matrix
  /\ \A m \in Range(a.models) : StatsContent(a.profiles[m]) = StatsContent(b.profiles[m])

\* two doubles that agree to a millionth
Close(x, y) == Abs(F64ToFixed(x) - F64ToFixed(y)) <= 1

\* as SameProfiles, but the consistency values need only agree to a millionth
SameProfilesUpToRounding(a, b) ==
  /\ a.tag = b.tag
  /\ a.models = b.models
  /\ a.matrix = b.matrix
  /\ \A m \in Range(a.models) :
       /\ [StatsContent(a.profiles[m]) EXCEPT !.consistency = F64Zero]
            = [StatsContent(b.profiles[m]) EXCEPT !.consistency = F64Zero]
       /\ Close(a.profiles[m].consistency, b.profiles[m].consistency)

\* each session has the same score
SameScores(a, b) == a.tag = b.tag /\ Range(a.scores) = Range(b.scores)

\* the other orders of the sessions of the history
OtherOrders == Rearrangements(History) \ {History}

\* both analytics have been computed once on the history
BothViewed == IsSome(conversations) /\ Len(profileCalls) = 1 /\ IsSome(controversy)

\* C7 as claimed: on every permutation of the sessions, calculatePersonalityProfiles
\* returns the same generator list, statistics (consistency included) and matrix,
\* and getControversyScores gives each session the same score.
C7_OrderIndependentExactly ==
  BothViewed =>
    \A p \in OtherOrders :
      /\ SameProfiles(profileCalls[1], calculatePersonalityProfiles(Some(p), now))
      /\ \A r \in getControversyScores(Some(p)) : SameScores(Get(controversy), r)

\* C7 as amended: on every permutation of the sessions the results are the same,
\* except that the consistency values, whose sum of squares is rounded in the order
\* of the sessions, agree only up to floating-point rounding.
C7_OrderIndependent ==
  BothViewed =>
    \A p \in OtherOrders :
      /\ SameProfilesUpToRounding(profileCalls[1],
                                  calculatePersonalityProfiles(Some(p), now))
      /\ \A r \in getControversyScores(Some(p)) : SameScores(Get(controversy), r)

\* two different sessions have been analysed, and some generator pools at least
\* five received positions over them
C7_Witness ==
  /\ BothViewed
  /\ Len(History) = 2
  /\ OtherOrders # {}
  /\ profileCalls[1].tag = "ok"
  /\ Get(controversy).tag = "ok"
  /\ \E m \in Range(profileCalls[1].models) :
       profileCalls[1].profiles[m].totalRankingsReceived >= 5

\* a >= b on JavaScript numbers: false when either is NaN
JsGeq(a, b) == a.tag = "num" /\ b.tag = "num" /\ a.val >= b.val

\* C8: getControversyScores returns one record per session, every record's score
\* is >= the score of the record after it, and records of equal score keep the
\* order of their original index.  (Stated for the histories whose qualifying
\* turns all carry a mapping; single-label mappings are among them.)
C8_RankedDescending ==
  (IsSome(conversations) /\ IsSome(controversy) /\ AllTurnsMapped) =>
    LET scores == Get(controversy).scores
    IN  /\ Get(controversy).tag = "ok"
        /\ Len(scores) = Len(History)
        /\ {scores[i].conversationId : i \in 1..Len(scores)} = 1..Len(History)
        /\ \A i \in 1..(Len(scores) - 1) :
             /\ JsGeq(scores[i].controversyScore, scores[i + 1].controversyScore)
             /\ scores[i].controversyScore = scores[i + 1].controversyScore
                  => scores[i].conversationId < scores[i + 1].conversationId

\* the scores of the qualifying turns of a conversation
TurnScores(conv) ==
  {calculateControversyScore(conv.messages[i].stage2, LabelToModelOf(conv.messages[i])) :
     i \in QualifyingTurns(conv)}

\* C9: the score reported for a session is the maximum of the scores of its
\* qualifying turns, and 0 when it has none.  (Stated for the histories whose
\* qualifying turns all carry a mapping.)
C9_SessionScoreIsMax ==
  (IsSome(conversations) /\ IsSome(controversy) /\ AllTurnsMapped) =>
    /\ Get(controversy).tag = "ok"
    /\ \A i \in 1..Len(Get(controversy).scores) :
         LET rec == Get(controversy).scores[i]
             turnScores == TurnScores(History[rec.conversationId])
         IN  IF turnScores = {} THEN rec.controversyScore = Fin(0)
             ELSE /\ rec.controversyScore \in turnScores
                  /\ \A t \in turnScores : JsGeq(rec.controversyScore, t)

\* C10: when a qualifying turn of the history has metadata without label_to_model,
\* calculatePersonalityProfiles and getControversyScores still complete without an
\* exception.
C10_MissingMappingNotFatal ==
  (IsSome(conversations) /\ ~AllTurnsMapped) =>
    /\ \A i \in 1..Len(profileCalls) : profileCalls[i].tag = "ok"
    /\ IsSome(controversy) => Get(controversy).tag = "ok"

\* C12: for an empty and for an absent history, calculatePersonalityProfiles
\* returns empty profiles, an empty generator list and a summary whose session
\* count is 0, and getControversyScores returns an empty sequence; neither throws.
C12_EmptyDefaults ==
  (~IsSome(conversations) \/ History = <<>>) =>
    /\ \A i \in 1..Len(profileCalls) :
         /\ profileCalls[i].tag = "ok"
         /\ profileCalls[i].profiles = <<>>
         /\ profileCalls[i].models = <<>>
         /\ IsSome(profileCalls[i].summary)
         /\ Get(profileCalls[i].summary).total_conversations = 0
    /\ IsSome(controversy) =>
         Get(controversy).tag = "ok" /\ Get(controversy).scores = <<>>

---------------------------------------------------------------------------
(* The resolved triples of a history, read off its records.                *)

\* the turns that are council turns with peer rankings, metadata and a mapping
TripleTurns(h) ==
  {ci \in (1..Len(h)) \X (1..MaxPartialTurns) :
     /\ ci[2] <= Len(h[ci[1]].messages)
     /\ Qualifies(h[ci[1]].messages[ci[2]])
     /\ IsSome(LabelToModelOf(h[ci[1]].messages[ci[2]]))}

\* the resolved triples of one turn: ranking r holds at index k a label that is a
\* key of the mapping; the position is 1 + the 0-based index, that is k
TriplesOfTurn(msg, c, i) ==
  LET stage2 == Get(msg.stage2)
      l2m == Get(LabelToModelOf(msg))
  IN  {[session |-> c, turn |-> i, ranking |-> rk[1], position |-> rk[2],
        evaluator |-> stage2[rk[1]].model,
        target |-> Lookup(l2m, Trim(Get(stage2[rk[1]].parsed_ranking)[rk[2]]))] :
         rk \in {x \in (1..Len(stage2)) \X (1..(MaxLen + 1)) :
                   /\ IsSome(stage2[x[1]].parsed_ranking)
                   /\ x[2] <= Len(Get(stage2[x[1]].parsed_ranking))
                   /\ \E j \in 1..Len(l2m) :
                        l2m[j].key = Trim(Get(stage2[x[1]].parsed_ranking)[x[2]])}}

\* the resolved triples of a history
Triples(h) ==
  UNION {TriplesOfTurn(h[ci[1]].messages[ci[2]], ci[1], ci[2]) : ci \in TripleTurns(h)}

\* the sum of the positions of a set of triples
RECURSIVE SumPositions(_)
SumPositions(T) ==
  IF T = {} THEN 0
  ELSE LET t == CHOOSE x \in T : TRUE
       IN  t.position + SumPositions(T \ {t})

\* the mean position of a non-empty set of triples
MeanPosition(T) == FromInt(SumPositions(T)) \div Cardinality(T)

\* the positions of a set of triples, listed in any order
RECURSIVE PositionsOf(_)
PositionsOf(T) ==
  IF T = {} THEN <<>>
  ELSE LET t == CHOOSE x \in T : TRUE
       IN  <<t.position>> \o PositionsOf(T \ {t})

\* the sum of the standard deviations of the position lists of the targets in G
RECURSIVE SumStdDevOfTargets(_, _)
SumStdDevOfTargets(T, G) ==
  IF G = {} THEN 0
  ELSE LET g == CHOOSE x \in G : TRUE
       IN  StdDev(PositionsOf({t \in T : t.target = g})) + SumStdDevOfTargets(T, G \ {g})

\* the score of a turn with at least 2 rankings and K >= 2 labels from its triples:
\* round(min(100, 100 * avg_std / max_std)), and 0 when there is no triple
ScoreOfTriples(T, labels) ==
  LET observed == {t.target : t \in T}
      avgStd == IF observed = {} THEN 0
                ELSE SumStdDevOfTargets(T, observed) \div Cardinality(observed)
      ratio100 == 100 * Div(avgStd, Div(FromInt(labels - 1), MathSqrt(FromInt(12))))
      capped == IF ratio100 < FromInt(100) THEN ratio100 ELSE FromInt(100)
  IN  FromInt(RoundFix(capped))

\* the largest of 0 and the triple scores of the qualifying turns of session c
SessionScoreOfTriples(h, c) ==
  Max({0} \cup
      {ScoreOfTriples(TriplesOfTurn(h[ci[1]].messages[ci[2]], ci[1], ci[2]),
                      Len(Get(LabelToModelOf(h[ci[1]].messages[ci[2]])))) :
         ci \in {x \in TripleTurns(h) :
                   x[1] = c /\ Len(Get(h[x[1]].messages[x[2]].stage2)) >= 2}})

\* the generators with an individual response in some council turn
KnownGenerators(h) ==
  {m \in Range(NameOrder) :
     \E c \in 1..Len(h) : \E i \in 1..Len(h[c].messages) :
       /\ h[c].messages[i].role = "assistant"
       /\ IsSome(h[c].messages[i].stage1)
       /\ \E j \in 1..Len(Get(h[c].messages[i].stage1)) :
            Get(h[c].messages[i].stage1)[j].model = m}

\* the entry of key m of an object held as a list of entries, as a set of 0 or 1
EntryOf(obj, m) == {obj[i] : i \in {j \in 1..Len(obj) : obj[j].model = m}}

\* the profiles and the scores have been computed without an exception
ViewedOk ==
  /\ IsSome(conversations)
  /\ Len(profileCalls) >= 1
  /\ profileCalls[1].tag = "ok"
  /\ IsSome(controversy)
  /\ Get(controversy).tag = "ok"

\* C11: a label that is not a key of the turn's mapping contributes no position
\* and raises no error, and the other labels of the ranking keep the position
\* 1 + their index: the matrix entries, the ranks a generator receives from each
\* other evaluator and the session scores are those of the resolved triples.
C11_UnresolvedLabelSkipped ==
  (IsSome(conversations) /\ AllTurnsMapped) =>
    /\ \A n \in 1..Len(profileCalls) : profileCalls[n].tag = "ok"
    /\ IsSome(controversy) => Get(controversy).tag = "ok"
    /\ ViewedOk =>
         LET T == Triples(History)
             result == profileCalls[1]
         IN  /\ \A e, g \in Range(result.models) :
                  LET pair == {t \in T : t.evaluator = e /\ t.target = g}
                  IN  result.matrix[e][g] =
                        IF pair = {} THEN None ELSE Some(MeanPosition(pair))
             /\ \A g \in Range(result.models) : \A e \in Range(NameOrder) \ {g} :
                  LET pair == {t \in T : t.evaluator = e /\ t.target = g}
                  IN  EntryOf(result.profiles[g].receivedRankings, e) =
                        IF pair = {} THEN {}
                        ELSE {[model |-> e, avgRank |-> MeanPosition(pair),
                               count |-> Cardinality(pair)]}
             /\ \A n \in 1..Len(Get(controversy).scores) :
                  LET rec == Get(controversy).scores[n]
                  IN  rec.controversyScore =
                        Fin(SessionScoreOfTriples(History, rec.conversationId))

\* a ranking with an unresolved label in front has been analysed: Y ranked
\* <<B, C, A>>, and X received position 3 from Y
C11_Witness ==
  /\ ViewedOk
  /\ \E c \in 1..Len(History) : \E i \in 1..Len(History[c].messages) :
       History[c].messages[i] = UnresolvedLabelTurn
  /\ TotalTurns(History) = 1
  /\ profileCalls[1].matrix["Y"]["X"] = Some(FromInt(3))
  /\ profileCalls[1].matrix["X"]["X"] = Some(FromInt(2))

\* a turn that is an asker turn or lacks the peer rankings or the metadata
Excluded(msg) ==
  msg.role # "assistant" \/ ~IsSome(msg.stage2) \/ ~IsSome(msg.metadata)

Included(msg) == ~Excluded(msg)

\* the history without its excluded turns
Strip(h) == [c \in 1..Len(h) |-> [h[c] EXCEPT !.messages = SelectSeq(@, Included)]]

\* the profiles of the history without its excluded turns
StrippedProfiles == calculatePersonalityProfiles(Some(Strip(History)), now)

\* the session scores of the history are those of the history without its
\* excluded turns
StrippedScoresSame ==
  IsSome(controversy) =>
    \A r \in getControversyScores(Some(Strip(History))) :
      SameScores(Get(controversy), r) /\ r.tag = "ok"

\* C13 as claimed: the excluded turns raise no exception, and the profiles, the
\* generator list, the matrix and the session scores are those of the history
\* without its excluded turns.
C13_ExcludedTurnsChangeNothing ==
  (IsSome(conversations) /\ AllTurnsMapped) =>
    /\ \A n \in 1..Len(profileCalls) :
         profileCalls[n].tag = "ok" /\ SameProfiles(profileCalls[n], StrippedProfiles)
    /\ StrippedScoresSame

\* C13: the excluded turns raise no exception and contribute no position: the
\* session scores, the statistics of every generator known without the excluded
\* turns and the matrix entries between such generators are those of the history
\* without its excluded turns; the individual responses of an excluded council
\* turn may only add generators to the list.
C13_ExcludedTurnsContributeNoPosition ==
  (IsSome(conversations) /\ AllTurnsMapped) =>
    /\ \A n \in 1..Len(profileCalls) :
         LET full == profileCalls[n]
             kept == StrippedProfiles
         IN  /\ full.tag = "ok"
             /\ kept.tag = "ok"
             /\ Range(kept.models) \subseteq Range(full.models)
             /\ \A g \in Range(kept.models) : full.profiles[g] = kept.profiles[g]
             /\ \A e, t \in Range(kept.models) : full.matrix[e][t] = kept.matrix[e][t]
    /\ StrippedScoresSame

\* a history with an asker turn that carries rankings, a council turn without
\* metadata and a qualifying turn has been analysed, and X has given ranks
C13_Witness ==
  /\ ViewedOk
  /\ \E c, d, e \in 1..Len(History) :
       /\ \E i \in 1..Len(History[c].messages) : History[c].messages[i] = AskerTurn
       /\ \E i \in 1..Len(History[d].messages) : History[d].messages[i] = NoMetadataTurn
       /\ \E i \in 1..Len(History[e].messages) : History[e].messages[i] = SplitTurn
  /\ profileCalls[1].profiles["X"].totalRankingsGiven = 2

\* the history holds the turn msg
Holds(msg) ==
  \E c \in 1..Len(History) : \E i \in 1..Len(History[c].messages) :
    History[c].messages[i] = msg

\* C14: for every ordered pair of known generators the matrix has an entry, and
\* the entry is null exactly when no resolved triple of a qualifying turn has
\* that evaluator and that target; an entry is never 0.
C14_NullIffNeverObserved ==
  IsSome(conversations) =>
    \A n \in 1..Len(profileCalls) :
      profileCalls[n].tag = "ok" =>
        \A e, t \in KnownGenerators(History) :
          /\ e \in DOMAIN profileCalls[n].matrix
          /\ t \in DOMAIN profileCalls[n].matrix[e]
          /\ (profileCalls[n].matrix[e][t] = None)
               <=> ~\E x \in Triples(History) : x.evaluator = e /\ x.target = t
          /\ profileCalls[n].matrix[e][t] # Some(0)

\* X ranked but Y never did: the entries of row Y are null, those of row X are not
C14_Witness ==
  /\ ViewedOk
  /\ Holds(UnknownIdentityTurn)
  /\ profileCalls[1].models = <<"X", "Y">>
  /\ profileCalls[1].matrix["Y"]["X"] = None
  /\ profileCalls[1].matrix["X"]["Y"] = None
  /\ IsSome(profileCalls[1].matrix["X"]["X"])

\* C15: a non-null matrix entry (e, t) is the mean of the positions e gave to t
\* over the qualifying turns of all sessions; triples with an unknown evaluator
\* or target raise no error, and the rows and the columns of the matrix are
\* those of the known generators only.
C15_EntryIsMeanOverHistory ==
  (IsSome(conversations) /\ AllTurnsMapped /\ History # <<>>) =>
    \A n \in 1..Len(profileCalls) :
      /\ profileCalls[n].tag = "ok"
      /\ DOMAIN profileCalls[n].matrix = KnownGenerators(History)
      /\ \A e \in KnownGenerators(History) :
           /\ DOMAIN profileCalls[n].matrix[e] = KnownGenerators(History)
           /\ \A t \in KnownGenerators(History) :
                IsSome(profileCalls[n].matrix[e][t]) =>
                  Get(profileCalls[n].matrix[e][t]) =
                    MeanPosition({x \in Triples(History) :
                                    x.evaluator = e /\ x.target = t})

\* two sessions have been analysed, one with rankings by and of the unknown W:
\* the matrix has no row W, and X's entry for itself pools both sessions
C15_Witness ==
  /\ ViewedOk
  /\ Len(History) = 2
  /\ History[1].messages = <<UnknownIdentityTurn>>
  /\ History[2].messages = <<TwiceOwnedTurn>>
  /\ "W" \notin DOMAIN profileCalls[1].matrix
  /\ profileCalls[1].matrix["X"]["X"] = Some(FromInt(4) \div 3)

\* C16: the generator list holds exactly the generators with an individual
\* response in a council turn of the history, each once, and the profiles have
\* the same keys; an identity that is only a mapping value or only an evaluator
\* is in neither.
C16_GeneratorsFromResponses ==
  IsSome(conversations) =>
    \A n \in 1..Len(profileCalls) :
      profileCalls[n].tag = "ok" =>
        /\ Range(profileCalls[n].models) = KnownGenerators(History)
        /\ Len(profileCalls[n].models) = Cardinality(KnownGenerators(History))
        /\ DOMAIN profileCalls[n].profiles = KnownGenerators(History)

\* W is an evaluator and a mapping value of the analysed history, but has no
\* individual response: the list is X, Y and W has no profile
C16_Witness ==
  /\ ViewedOk
  /\ Holds(UnknownIdentityTurn)
  /\ \E x \in Triples(History) : x.evaluator = "W"
  /\ \E x \in Triples(History) : x.target = "W"
  /\ profileCalls[1].models = <<"X", "Y">>
  /\ DOMAIN profileCalls[1].profiles = {"X", "Y"}

\* the triples in which e ranks t
Pair(e, t) == {x \in Triples(History) : x.evaluator = e /\ x.target = t}

\* C17: a generator that never ranked itself has self_assessment 0 with count 0,
\* computed without an exception; when the count is positive, self_assessment
\* is the mean of the positions the generator gave to itself.
C17_SelfAssessment ==
  (IsSome(conversations) /\ AllTurnsMapped) =>
    \A n \in 1..Len(profileCalls) :
      /\ profileCalls[n].tag = "ok"
      /\ \A g \in Range(profileCalls[n].models) :
           LET stats == profileCalls[n].profiles[g]
           IN  /\ Pair(g, g) = {} =>
                    stats.self_assessment = 0 /\ stats.self_assessment_count = 0
               /\ stats.self_assessment_count > 0 =>
                    stats.self_assessment = MeanPosition(Pair(g, g))

\* C18: totalRankingsReceived of g is the number of resolved triples with target
\* g, those in which g is the evaluator included.
C18_ReceivedCountsEveryTriple ==
  (IsSome(conversations) /\ AllTurnsMapped) =>
    \A n \in 1..Len(profileCalls) :
      /\ profileCalls[n].tag = "ok"
      /\ \A g \in Range(profileCalls[n].models) :
           profileCalls[n].profiles[g].totalRankingsReceived =
             Cardinality({x \in Triples(History) : x.target = g})

\* C19: totalRankingsGiven of g is the number of resolved triples with evaluator
\* g, the count given to t is the number of those with target t, and the
\* self-assessment observations are those with target g.
C19_GivenCountsEveryTriple ==
  (IsSome(conversations) /\ AllTurnsMapped) =>
    \A n \in 1..Len(profileCalls) :
      /\ profileCalls[n].tag = "ok"
      /\ \A g \in Range(profileCalls[n].models) :
           LET stats == profileCalls[n].profiles[g]
           IN  /\ stats.totalRankingsGiven =
                    Cardinality({x \in Triples(History) : x.evaluator = g})
               /\ \A t \in Range(NameOrder) :
                    {entry.count : entry \in EntryOf(stats.givenRankings, t)} =
                      IF Pair(g, t) = {} THEN {} ELSE {Cardinality(Pair(g, t))}
               /\ stats.self_assessment_count = Cardinality(Pair(g, g))

\* C20: no call of calculatePersonalityProfiles, getControversyScores,
\* calculateControversyScore or calculateControversyMetrics changes the history
\* or the rankings and the mapping of the turn it is given: same elements, same
\* order.
C20_InputsUnchanged ==
  [][/\ conversations' = conversations
     /\ rankings' = rankings
     /\ labelToModel' = labelToModel]_vars

\* the four functions have returned, getControversyScores with the second session
\* ahead of the first, and the history still has its first session first
C20_Witness ==
  /\ IsSome(score)
  /\ IsSome(metrics)
  /\ IsSome(rankings)
  /\ ViewedOk
  /\ Len(History) = 2
  /\ Get(controversy).scores[1].conversationId = 2
  /\ History[1].id = 1

---------------------------------------------------------------------------
(* The Stage 1 and Stage 2 views: tabs and the expand button.  A component *)
(* keeps its state while its parent renders it again with other props; an  *)
(* exception thrown while rendering takes the view down.                   *)

\* the rankings prop: absent, or the rankings of up to MaxTabs evaluators
ViewRankings ==
  {None} \cup
  {Some([r \in 1..k |-> [model |-> Evaluator(r),
                         parsed_ranking |-> Some(<<Label(1), Label(2)>>)]]) :
     k \in 0..MaxTabs}

\* the labelToModel prop
ViewMappings == {None, Some(MappingOf(<<"X", "Y">>))}

\* the responses prop: absent, or the responses of up to MaxTabs generators
ViewResponses ==
  {None} \cup {Some([r \in 1..k |-> [model |-> Evaluator(r)]]) : k \in 0..MaxTabs}

\* what rendering Stage2 gives: the exception of line 126 or of rankings[activeTab].model
\* (line 282), null (lines 128-130), or the view
Stage2Render(props, mapping, state) ==
  IF calculateControversyMetrics(props, mapping).tag = "TypeError" THEN "TypeError"
  ELSE IF ~IsSome(props) \/ Len(Get(props)) = 0 THEN "null"
  ELSE IF state.activeTab >= Len(Get(props)) THEN "TypeError"
  ELSE "shown"

\* what rendering Stage1 gives: null (lines 8-10), the exception of
\* responses[activeTab].model, or the view
Stage1Render(props, state) ==
  IF ~IsSome(props) \/ Len(Get(props)) = 0 THEN "null"
  ELSE IF state.activeTab >= Len(Get(props)) THEN "TypeError"
  ELSE "shown"

\* the controversy block with the expand button is part of the shown view
MetricsShown ==
  /\ Stage2Render(rankings, labelToModel, stage2State) = "shown"
  /\ calculateControversyMetrics(rankings, labelToModel).tag = "metrics"

InitView ==
  /\ rankings \in ViewRankings
  /\ labelToModel \in ViewMappings
  /\ responses \in ViewResponses
  /\ stage1State = Stage1Mounted
  /\ stage2State = Stage2Mounted
  /\ score = None
  /\ metrics = None
  /\ conversations = None
  /\ profileCalls = <<>>
  /\ controversy = None
  /\ now = 0

analyticsVars == <<score, metrics, conversations, profileCalls, controversy, now>>

\* onClick={() => setActiveTab(index)} of a tab of Stage2, line 273
ClickRankingTab ==
  /\ Stage2Render(rankings, labelToModel, stage2State) = "shown"
  /\ \E index \in 0..(Len(Get(rankings)) - 1) :
       stage2State' = [stage2State EXCEPT !.activeTab = index]
  /\ UNCHANGED <<rankings, labelToModel, responses, stage1State>>
  /\ UNCHANGED analyticsVars

\* onClick={() => setExpandedMetrics(!expandedMetrics)}, line 157
ClickExpandMetrics ==
  /\ MetricsShown
  /\ stage2State' = [stage2State EXCEPT !.expandedMetrics = ~stage2State.expandedMetrics]
  /\ UNCHANGED <<rankings, labelToModel, responses, stage1State>>
  /\ UNCHANGED analyticsVars

\* the parent renders Stage2 again with other props; the state is kept
RerenderStage2 ==
  /\ Stage2Render(rankings, labelToModel, stage2State) # "TypeError"
  /\ rankings' \in ViewRankings
  /\ labelToModel' \in ViewMappings
  /\ UNCHANGED <<responses, stage1State, stage2State>>
  /\ UNCHANGED analyticsVars

\* onClick={() => setActiveTab(index)} of a tab of Stage1, line 33
ClickResponseTab ==
  /\ Stage1Render(responses, stage1State) = "shown"
  /\ \E index \in 0..(Len(Get(responses)) - 1) :
       stage1State' = [stage1State EXCEPT !.activeTab = index]
  /\ UNCHANGED <<rankings, labelToModel, responses, stage2State>>
  /\ UNCHANGED analyticsVars

\* the parent renders Stage1 again with other props; the state is kept
RerenderStage1 ==
  /\ Stage1Render(responses, stage1State) # "TypeError"
  /\ responses' \in ViewResponses
  /\ UNCHANGED <<rankings, labelToModel, stage1State, stage2State>>
  /\ UNCHANGED analyticsVars

NextView ==
  \/ ClickRankingTab
  \/ ClickExpandMetrics
  \/ RerenderStage2
  \/ ClickResponseTab
  \/ RerenderStage1

SpecView == InitView /\ [][NextView]_vars

\* C21: the controversy details are expanded when the Stage 2 view first shows
\* its controversy metrics, before any click on the expand button, and every
\* click on the expand button toggles them.
C21_ExpandedByDefault ==
  /\ MetricsShown => stage2State.expandedMetrics
  /\ [][ClickExpandMetrics =>
          stage2State'.expandedMetrics = ~stage2State.expandedMetrics]_vars

\* C30: whenever a view renders its tab content (its list is present and not
\* empty), after any clicks on tabs and any renderings with other props,
\* activeTab is an index of the current list: 0 <= activeTab < length.
C30_ActiveTabValid ==
  /\ (IsSome(rankings) /\ Len(Get(rankings)) > 0) =>
       stage2State.activeTab \in 0..(Len(Get(rankings)) - 1)
  /\ (IsSome(responses) /\ Len(Get(responses)) > 0) =>
       stage1State.activeTab \in 0..(Len(Get(responses)) - 1)

\* the triples whose positions the profile of g holds as received: those with
\* target g given by the other evaluators
ReceivedTriples(g) == {x \in Triples(History) : x.target = g /\ x.evaluator # g}

\* the sum of the values of a function with a finite domain
RECURSIVE SumOver(_, _)
SumOver(f, D) ==
  IF D = {} THEN 0
  ELSE LET d == CHOOSE x \in D : TRUE IN f[d] + SumOver(f, D \ {d})

MetricsComputed == IsSome(metrics) /\ Get(metrics).tag = "metrics"

\* C23: in the position matrix of a turn, the position list of a generator is
\* never longer than the number of peer rankings of the turn, whatever the
\* rankings and the mapping are.
C23_OneEntryPerEvaluator ==
  MetricsComputed =>
    \A i \in 1..Len(Get(metrics).positionMatrix) :
      Len(Get(metrics).positionMatrix[i].positions) <= Len(Get(rankings))

\* C24: every position in the position matrix of a turn is an integer from 1 to
\* K, the number of labels of the turn's mapping, also when a ranking is longer
\* than K.
C24_PositionsWithinLabels ==
  MetricsComputed =>
    \A i \in 1..Len(Get(metrics).positionMatrix) :
      \A j \in 1..Len(Get(metrics).positionMatrix[i].positions) :
        Get(metrics).positionMatrix[i].positions[j] \in 1..Len(Get(labelToModel))

\* C25: a label is resolved with the mapping of the turn its ranking belongs to:
\* in a history whose turns give the same label to different generators, the
\* matrix entries and the received counts and means are those of the triples
\* resolved turn by turn, each with its own mapping.
C25_OwnMappingOfTheTurn ==
  (IsSome(conversations) /\ AllTurnsMapped) =>
    \A n \in 1..Len(profileCalls) :
      /\ profileCalls[n].tag = "ok"
      /\ \A g \in Range(profileCalls[n].models) :
           /\ profileCalls[n].profiles[g].totalRankingsReceived =
                Cardinality(ReceivedTriples(g))
           /\ \A e \in Range(profileCalls[n].models) :
                profileCalls[n].matrix[e][g] =
                  IF Pair(e, g) = {} THEN None ELSE Some(MeanPosition(Pair(e, g)))

\* one session holds a turn in which A is X and then a turn in which A is Y:
\* X gave Y the positions 2 and then 1
C25_Witness ==
  /\ ViewedOk
  /\ Len(History) = 1
  /\ History[1].messages = <<SplitTurn, RelabelledTurn>>
  /\ profileCalls[1].matrix["X"]["Y"] = Some(FromInt(3) \div 2)
  /\ profileCalls[1].profiles["Y"].totalRankingsReceived = 2

\* a label without the blanks at its ends
CoreOf(label) ==
  LET inked == {k \in 1..Len(label) : label[k] \notin Whitespace}
  IN  IF inked = {} THEN <<>>
      ELSE SubSeq(label, CHOOSE k \in inked : \A j \in inked : k <= j,
                         CHOOSE k \in inked : \A j \in inked : j <= k)

\* a ranking with every entry replaced by its core
CoreRanking(ranking) ==
  IF IsSome(ranking.parsed_ranking)
  THEN [ranking EXCEPT !.parsed_ranking =
          Some([k \in 1..Len(Get(@)) |-> CoreOf(Get(@)[k])])]
  ELSE ranking

\* a turn with every ranking entry replaced by its core
CoreTurn(msg) ==
  IF IsSome(msg.stage2)
  THEN [msg EXCEPT !.stage2 = Some([r \in 1..Len(Get(@)) |-> CoreRanking(Get(@)[r])])]
  ELSE msg

\* the history with every ranking entry replaced by its core
CoreHistory(h) ==
  [c \in 1..Len(h) |->
     [h[c] EXCEPT !.messages = [i \in 1..Len(@) |-> CoreTurn(@[i])]]]

\* C26: blanks around a label make no difference: the profiles, the matrix and
\* the session scores of a history are those of the history whose ranking
\* entries have no blanks at their ends.
C26_TrimmedBeforeLookup ==
  IsSome(conversations) =>
    /\ \A n \in 1..Len(profileCalls) :
         profileCalls[n] = calculatePersonalityProfiles(Some(CoreHistory(History)), now)
    /\ IsSome(controversy) =>
         Get(controversy) \in getControversyScores(Some(CoreHistory(History)))

\* a turn with blanks before and around labels has been analysed and its
\* entries have been resolved: Y ranked " B " second, which is X
C26_Witness ==
  /\ ViewedOk
  /\ History = <<[id |-> 1, messages |-> <<RelabelledTurn>>]>>
  /\ CoreHistory(History) # History
  /\ profileCalls[1].matrix["Y"]["X"] = Some(FromInt(2))
  /\ profileCalls[1].matrix["X"]["Y"] = Some(FromInt(1))

\* the hits of generator g in rankings that g itself owns
SelfHits(g) == {h \in Hits(g) : Get(rankings)[h[1]].model = g}

\* C27: a generator's position list holds the positions given by its own
\* evaluator like those given by the others (one entry per resolved entry of
\* any ranking), and the score is computed from these lists.
C27_SelfRankingsIncluded ==
  (IsSome(labelToModel) /\ NumRankings >= 2) =>
    /\ MetricsComputed =>
         \A i \in 1..Len(Get(metrics).positionMatrix) :
           LET entry == Get(metrics).positionMatrix[i]
           IN  /\ Len(entry.positions) = Cardinality(Hits(entry.model))
               /\ \A h \in SelfHits(entry.model) :
                    \E j \in 1..Len(entry.positions) : entry.positions[j] = h[2]
    /\ (IsSome(score) /\ K >= 2 /\ ~NoPositionObserved) => Get(score) = FormulaScore

\* X placed itself first and Y placed X second: X's list is 1, 2 and the score
\* is 87; without X's own position every list would have one entry or none
C27_Witness ==
  /\ IsSome(score)
  /\ MetricsComputed
  /\ labelToModel = Some(MappingOf(<<"X", "Y">>))
  /\ NumRankings = 2
  /\ ParsedOf(1) = <<Label(1)>>
  /\ ParsedOf(2) = <<Label(2), Label(1)>>
  /\ IsSome(Get(rankings)[1].parsed_ranking)
  /\ SelfHits("X") = {<<1, 1>>}
  /\ Get(metrics).positionMatrix[1].positions = <<1, 2>>
  /\ Get(score) = Fin(FromInt(87))

\* C28: on the same rankings and mapping, the Stage 2 view and the analytics
\* scorer give the same score, and the view has no score (null) exactly when the
\* analytics scorer returns no genuine score.
C28_ScorersAgree ==
  (IsSome(score) /\ IsSome(metrics)) =>
    /\ Get(metrics).tag = "metrics" => Get(metrics).controversyScore = Get(score)
    /\ (Get(metrics).tag = "null") <=>
         (Get(score) \notin GenuineScores /\ Get(score).tag # "TypeError")
    /\ (Get(metrics).tag = "TypeError") <=> (Get(score).tag = "TypeError")

\* C29: the outputs of calculatePersonalityProfiles agree with each other: for
\* known generators e # t, what e has given to t (mean and count) is what t has
\* received from e, and its mean is matrix[e][t]; and self_assessment of g is
\* matrix[g][g] whenever self_assessment_count > 0.
C29_OutputsMutuallyConsistent ==
  IsSome(conversations) =>
    \A n \in 1..Len(profileCalls) :
      profileCalls[n].tag = "ok" =>
        LET result == profileCalls[n]
            known == Range(result.models)
        IN  /\ \A e, t \in known :
                 e # t =>
                   /\ {[avgRank |-> x.avgRank, count |-> x.count] :
                         x \in EntryOf(result.profiles[e].givenRankings, t)}
                        = {[avgRank |-> x.avgRank, count |-> x.count] :
                             x \in EntryOf(result.profiles[t].receivedRankings, e)}
                   /\ \A x \in EntryOf(result.profiles[e].givenRankings, t) :
                        result.matrix[e][t] = Some(x.avgRank)
            /\ \A g \in known :
                 result.profiles[g].self_assessment_count > 0 =>
                   result.matrix[g][g] = Some(result.profiles[g].self_assessment)

====
